---- MODULE Spec2Model ----
(***************************************************************************)
(* GPU-SIM: profile model, identity projector, registry transaction       *)
(* engine, profile store and telemetry simulator, as state machines.      *)
(*                                                                         *)
(* The module holds these specifications over one set of variables:       *)
(*   SpecProj   DetectionBypass, GPUZBypass and the GPUProfile predicates *)
(*   SpecModes  GPUProfile.to_dict, from_dict and get_max_resolution      *)
(*   SpecReg    GPURegistry.apply_gpu_profile with BackupManager          *)
(*   SpecStore  ConfigManager (profile store)                             *)
(*   SpecShared the ConfigManager instances of get_config_manager()       *)
(*   SpecSim    FakeMetricsGenerator with its background update thread    *)
(*   SpecTicks  FakeMetricsGenerator driven from one thread               *)
(*   SpecHeld   a load set once and held over a long run of ticks         *)
(*   SpecNotify the update thread alone, callbacks registered beforehand  *)
(*   SpecUnsub  SpecNotify with remove_callback during the run            *)
(* Each specification leaves the variables of the others unchanged.       *)
(***************************************************************************)
EXTENDS Integers, Sequences, FiniteSets, TLC

VARIABLES
    \* DetectionBypass
    bpProfile,        \* DetectionBypass._profile (None or a GPUProfile)
    bpOut,            \* value returned by the last projector call
    gzAdapter,        \* GPUZBypass._fake_adapter
    \* GPURegistry.apply_gpu_profile
    regPc,            \* position inside apply_gpu_profile
    regProfile,       \* the profile argument
    regCreateBackups, \* GPURegistry._create_backups
    regBackupIdx,     \* index into BackupManager.GPU_REGISTRY_PATHS
    regBackups,       \* list returned by create_full_gpu_backup so far
    regIdx,           \* index of the next item of registry_entries.items()
    regWritten,       \* names for which SetValueEx returned in this apply
    regFailed,        \* names whose SetValueEx raised OSError in this apply
    regRet,           \* return value of apply_gpu_profile
    regKey,           \* the adapter key handle: None, "open" or "closed"
    regApplies,       \* number of apply calls started
    registry,         \* values of the adapter subkey: name -> stored value
    \* ConfigManager
    files,            \* the profiles directory: id -> document of <id>.json
    cmProfiles,       \* per manager, ConfigManager._profiles: id -> profile
    cmActive,         \* per manager, ConfigManager._active_profile
    marker,           \* content of ~/.gpu_sim_active.json (None: no file)
    cmCall,           \* the last ConfigManager call and what it returned
    cmOps,            \* number of ConfigManager calls made
    \* FakeMetricsGenerator
    simProfile,       \* _profile
    base,             \* _base_metrics
    cur,              \* the GPUMetrics object _current_metrics refers to
    curId,            \* identity of that object (objects are numbered as created)
    targetLoad,       \* _target_load, in thousandths
    running,          \* _running
    updateThread,     \* _update_thread (0: None)
    callbacks,        \* _callbacks
    wpc,              \* per thread, position inside _update_loop
    wloc,             \* per thread, local variables of the tick in progress
    callerPc,         \* position of the calling (UI) thread
    callerArg,        \* profile argument of the set_profile call in progress
    ticks,            \* number of ticks begun
    notified,         \* number of callback invocations
    simCalls          \* number of calls made by the calling thread

None == "None"

(***************************************************************************)
(* Python str values.  A str is named by a TLA+ string; StrChars gives    *)
(* its characters, so that upper() and the `in` operator are computed     *)
(* character by character.                                                *)
(***************************************************************************)
StrChars(s) ==
    CASE s = "NVIDIA Corporation" -> <<"N", "V", "I", "D", "I", "A", " ", "C", "o", "r", "p", "o", "r", "a", "t", "i", "o", "n">>
      [] s = "NVIDIA" -> <<"N", "V", "I", "D", "I", "A">>
      [] s = "Advanced Micro Devices, Inc." -> <<"A", "d", "v", "a", "n", "c", "e", "d", " ", "M", "i", "c", "r", "o", " ", "D", "e", "v", "i", "c", "e", "s", ",", " ", "I", "n", "c", ".">>
      [] s = "AMD" -> <<"A", "M", "D">>
      [] s = "ATI" -> <<"A", "T", "I">>
      [] s = "ATI Technologies Inc." -> <<"A", "T", "I", " ", "T", "e", "c", "h", "n", "o", "l", "o", "g", "i", "e", "s", " ", "I", "n", "c", ".">>
      [] s = "Intel Corporation" -> <<"I", "n", "t", "e", "l", " ", "C", "o", "r", "p", "o", "r", "a", "t", "i", "o", "n">>
      [] s = "Test Corp" -> <<"T", "e", "s", "t", " ", "C", "o", "r", "p">>
      [] s = "Unknown" -> <<"U", "n", "k", "n", "o", "w", "n">>
      [] s = "" -> <<>>
      [] s = "DriverDesc" -> <<"D", "r", "i", "v", "e", "r", "D", "e", "s", "c">>
      [] s = "ProviderName" -> <<"P", "r", "o", "v", "i", "d", "e", "r", "N", "a", "m", "e">>
      [] s = "HardwareInformation.AdapterString" -> <<"H", "a", "r", "d", "w", "a", "r", "e", "I", "n", "f", "o", "r", "m", "a", "t", "i", "o", "n", ".", "A", "d", "a", "p", "t", "e", "r", "S", "t", "r", "i", "n", "g">>
      [] s = "HardwareInformation.MemorySize" -> <<"H", "a", "r", "d", "w", "a", "r", "e", "I", "n", "f", "o", "r", "m", "a", "t", "i", "o", "n", ".", "M", "e", "m", "o", "r", "y", "S", "i", "z", "e">>
      [] s = "HardwareInformation.qwMemorySize" -> <<"H", "a", "r", "d", "w", "a", "r", "e", "I", "n", "f", "o", "r", "m", "a", "t", "i", "o", "n", ".", "q", "w", "M", "e", "m", "o", "r", "y", "S", "i", "z", "e">>
      [] s = "HardwareInformation.BiosString" -> <<"H", "a", "r", "d", "w", "a", "r", "e", "I", "n", "f", "o", "r", "m", "a", "t", "i", "o", "n", ".", "B", "i", "o", "s", "S", "t", "r", "i", "n", "g">>
      [] s = "FeatureScore" -> <<"F", "e", "a", "t", "u", "r", "e", "S", "c", "o", "r", "e">>
      [] s = "qwMemorySize" -> <<"q", "w", "M", "e", "m", "o", "r", "y", "S", "i", "z", "e">>
      [] s = "GeForce RTX 4090" -> <<"G", "e", "F", "o", "r", "c", "e", " ", "R", "T", "X", " ", "4", "0", "9", "0">>
      [] s = "Radeon RX 7900" -> <<"R", "a", "d", "e", "o", "n", " ", "R", "X", " ", "7", "9", "0", "0">>
      [] s = "780" -> <<"7", "8", "0">>
      [] s = "750" -> <<"7", "5", "0">>
      [] s = "980" -> <<"9", "8", "0">>
      [] s = "970" -> <<"9", "7", "0">>
      [] s = "1080" -> <<"1", "0", "8", "0">>
      [] s = "1070" -> <<"1", "0", "7", "0">>
      [] s = "2080" -> <<"2", "0", "8", "0">>
      [] s = "2070" -> <<"2", "0", "7", "0">>
      [] s = "3080" -> <<"3", "0", "8", "0">>
      [] s = "3070" -> <<"3", "0", "7", "0">>
      [] s = "3090" -> <<"3", "0", "9", "0">>
      [] s = "4080" -> <<"4", "0", "8", "0">>
      [] s = "4070" -> <<"4", "0", "7", "0">>
      [] s = "4090" -> <<"4", "0", "9", "0">>
      [] s = "40" -> <<"4", "0">>
      [] s = "6800" -> <<"6", "8", "0", "0">>
      [] s = "6900" -> <<"6", "9", "0", "0">>
      [] s = "5700" -> <<"5", "7", "0", "0">>
      [] s = "5600" -> <<"5", "6", "0", "0">>
      [] s = "580" -> <<"5", "8", "0">>
      [] s = "570" -> <<"5", "7", "0">>
      [] s = "10DE" -> <<"1", "0", "D", "E">>
      [] s = "1002" -> <<"1", "0", "0", "2">>
      [] s = "2684" -> <<"2", "6", "8", "4">>
      [] s = "744C" -> <<"7", "4", "4", "C">>
      [] s = "10DE-2684" -> <<"1", "0", "D", "E", "-", "2", "6", "8", "4">>
      [] s = "1002-744C" -> <<"1", "0", "0", "2", "-", "7", "4", "4", "C">>
      [] s = "0000" -> <<"0", "0", "0", "0">>
      [] s = "-" -> <<"-">>
Upper(cs) ==
    LET upper(c) ==
            CASE c = "a" -> "A"
              [] c = "b" -> "B"
              [] c = "c" -> "C"
              [] c = "d" -> "D"
              [] c = "e" -> "E"
              [] c = "f" -> "F"
              [] c = "g" -> "G"
              [] c = "h" -> "H"
              [] c = "i" -> "I"
              [] c = "j" -> "J"
              [] c = "k" -> "K"
              [] c = "l" -> "L"
              [] c = "m" -> "M"
              [] c = "n" -> "N"
              [] c = "o" -> "O"
              [] c = "p" -> "P"
              [] c = "q" -> "Q"
              [] c = "r" -> "R"
              [] c = "s" -> "S"
              [] c = "t" -> "T"
              [] c = "u" -> "U"
              [] c = "v" -> "V"
              [] c = "w" -> "W"
              [] c = "x" -> "X"
              [] c = "y" -> "Y"
              [] c = "z" -> "Z"
              [] OTHER -> c
    IN  [i \in 1..Len(cs) |-> upper(cs[i])]

\* Python `sub in s` for str
Contains(sub, cs) ==
    \E k \in 0..(Len(cs) - Len(sub)) :
        \A i \in 1..Len(sub) : cs[k + i] = sub[i]

\* "".join(chars): the str with the given characters
RECURSIVE JoinChars(_)
JoinChars(cs) == IF cs = <<>> THEN "" ELSE cs[1] \o JoinChars(Tail(cs))

\* str.split(sep) for a one-character separator
RECURSIVE Split(_, _)
Split(cs, sep) ==
    IF \E i \in 1..Len(cs) : cs[i] = sep
    THEN LET k == CHOOSE i \in 1..Len(cs) :
                      cs[i] = sep /\ \A j \in 1..(i - 1) : cs[j] # sep
         IN  <<SubSeq(cs, 1, k - 1)>> \o Split(SubSeq(cs, k + 1, Len(cs)), sep)
    ELSE <<cs>>

HexDigit(c) ==
    CASE c = "0" -> 0 [] c = "1" -> 1 [] c = "2" -> 2 [] c = "3" -> 3
      [] c = "4" -> 4 [] c = "5" -> 5 [] c = "6" -> 6 [] c = "7" -> 7
      [] c = "8" -> 8 [] c = "9" -> 9
      [] c \in {"a", "A"} -> 10 [] c \in {"b", "B"} -> 11
      [] c \in {"c", "C"} -> 12 [] c \in {"d", "D"} -> 13
      [] c \in {"e", "E"} -> 14 [] c \in {"f", "F"} -> 15
      [] OTHER -> -1

RECURSIVE HexValue(_)
HexValue(cs) ==
    IF cs = <<>> THEN 0
    ELSE HexValue(SubSeq(cs, 1, Len(cs) - 1)) * 16 + HexDigit(cs[Len(cs)])

\* int(s, 16); ValueError stands for the exception of that name
ValueError == -1
HexInt(cs) ==
    IF cs = <<>> \/ \E i \in 1..Len(cs) : HexDigit(cs[i]) < 0 THEN ValueError
    ELSE HexValue(cs)

(***************************************************************************)
(* Python int values are unbounded: an int is a sign and its magnitude in *)
(* base 2^16 digits, least significant first, without leading zeros.      *)
(***************************************************************************)
Base == 65536

RECURSIVE Limbs(_)
Limbs(n) == IF n = 0 THEN <<>> ELSE <<n % Base>> \o Limbs(n \div Base)

PyInt(n) == [neg |-> n < 0, d |-> Limbs(IF n < 0 THEN 0 - n ELSE n)]

\* value > 0xFFFFFFFF
GtMaxDword(x) == ~x.neg /\ Len(x.d) > 2

\* int.to_bytes(8, byteorder='little') raises OverflowError when the value
\* is negative or does not fit in 8 bytes
Overflows8(x) == x.neg \/ Len(x.d) > 4

ToBytes8LE(x) ==
    [i \in 1..8 |->
        LET limb == IF (i + 1) \div 2 <= Len(x.d) THEN x.d[(i + 1) \div 2] ELSE 0
        IN  IF i % 2 = 1 THEN limb % 256 ELSE limb \div 256]

\* inverse reading of an 8-byte little-endian blob as an int
RECURSIVE StripZeros(_)
StripZeros(d) ==
    IF d = <<>> THEN <<>>
    ELSE IF d[Len(d)] = 0 THEN StripZeros(SubSeq(d, 1, Len(d) - 1))
    ELSE d

FromBytes8LE(b) ==
    [neg |-> FALSE,
     d   |-> StripZeros([j \in 1..4 |-> b[2 * j - 1] + 256 * b[2 * j]])]

(***************************************************************************)
(* GPUProfile (src/core/gpu_profile.py).  registry_entries is a dict: a   *)
(* sequence of items with distinct names, in insertion order.  A value is *)
(* an int, a str or bytes, tagged by its Python type.                     *)
(***************************************************************************)
IntVal(x)   == [t |-> "int",   i |-> x,        s |-> "", b |-> <<>>]
StrVal(x)   == [t |-> "str",   i |-> PyInt(0), s |-> x,  b |-> <<>>]
BytesVal(x) == [t |-> "bytes", i |-> PyInt(0), s |-> "", b |-> x]

Mem16G   == [neg |-> FALSE, d |-> <<0, 0, 4>>]          \* 17179869184

EntryNames ==
    {"DriverDesc", "ProviderName", "HardwareInformation.AdapterString",
     "HardwareInformation.MemorySize", "HardwareInformation.qwMemorySize",
     "HardwareInformation.BiosString", "FeatureScore"}

MaxEntries == 2

DictNames(d) == {d[i].name : i \in 1..Len(d)}

\* the registry_entries a profile document may carry: up to MaxEntries of
\* these items, under different names
EntryDicts ==
    LET pool ==
            {[name |-> "DriverDesc",                       value |-> StrVal("Custom Desc")],
             [name |-> "HardwareInformation.qwMemorySize", value |-> IntVal(Mem16G)],
             [name |-> "HardwareInformation.qwMemorySize", value |-> IntVal(PyInt(-1))],
             \* 4294967296 = 0xFFFFFFFF + 1, and 0xFFFFFFFF
             [name |-> "HardwareInformation.MemorySize",
              value |-> IntVal([neg |-> FALSE, d |-> <<0, 0, 1>>])],
             [name |-> "HardwareInformation.MemorySize",
              value |-> IntVal([neg |-> FALSE, d |-> <<65535, 65535>>])],
             [name |-> "HardwareInformation.BiosString",   value |-> BytesVal(<<1, 2>>)]}
    IN  UNION {{d \in [1..n -> pool] :
                    \A i, j \in 1..n : i # j => d[i].name # d[j].name}
               : n \in 0..MaxEntries}

\* dict lookup: the value stored under name (name is a key of d)
DictGet(d, name) == d[CHOOSE i \in 1..Len(d) : d[i].name = name].value

\* the attributes of a GPUProfile object: the dataclass fields and the
\* properties; reading any other attribute raises AttributeError
HasAttr(attr) ==
    attr \in
      {"id", "name", "manufacturer", "driver_version", "driver_date", "vram_mb",
       "vram_type", "base_clock_mhz", "boost_clock_mhz", "memory_clock_mhz",
       "memory_bus_width", "tdp_watts", "cuda_cores", "stream_processors",
       "pci_device_id", "pci_vendor_id", "subsystem_id", "device_description",
       "video_processor", "dac_type", "adapter_compatibility", "registry_entries",
       "display_modes", "features",
       "vram_bytes", "vram_gb", "compute_units", "is_nvidia", "is_amd"}

\* Python None in a slot of type Optional[GPUProfile]
NoProfile ==
    [name |-> "None", manufacturer |-> "", vram_mb |-> 0, registry_entries |-> <<>>,
     pci_vendor_id |-> "", pci_device_id |-> "",
     driver_version |-> "", driver_date |-> "", vram_type |-> "",
     memory_bus_width |-> 0, dac_type |-> "", video_processor |-> "",
     adapter_compatibility |-> "", cuda_cores |-> 0, stream_processors |-> 0,
     base_clock_mhz |-> 0, boost_clock_mhz |-> 0, memory_clock_mhz |-> 0,
     tdp_watts |-> 0, features |-> <<>>]

\* the fields that every profile of the model shares: the dataclass
\* defaults, and one driver and clock configuration
Profiles ==
    [name : {"GeForce RTX 4090", "Radeon RX 7900"},
     manufacturer : {"NVIDIA Corporation", "NVIDIA", "Advanced Micro Devices, Inc.",
                     "AMD", "ATI Technologies Inc.", "Intel Corporation",
                     "Test Corp", "Unknown", ""},
     vram_mb : {8192, 16384},
     registry_entries : EntryDicts,
     pci_vendor_id : {"", "10DE", "1002"},
     pci_device_id : {"", "2684", "10DE-2684", "1002-744C"},
     driver_version : {"31.0.15.3623"}, driver_date : {""}, vram_type : {"GDDR5"},
     memory_bus_width : {256}, dac_type : {"Integrated RAMDAC"},
     video_processor : {""}, adapter_compatibility : {""},
     cuda_cores : {0}, stream_processors : {0},
     base_clock_mhz : {1500}, boost_clock_mhz : {2000}, memory_clock_mhz : {1313},
     tdp_watts : {250}, features : {<<>>}]

\* --- GPUProfile with its display modes: to_dict, from_dict and
\* get_max_resolution (src/core/gpu_profile.py) ---
\* a DisplayMode object
DisplayMode(width, height, refresh) ==
    [class |-> "DisplayMode", width |-> width, height |-> height, refresh |-> refresh]

\* None in a slot of type Optional[DisplayMode]
NoMode == [class |-> "NoneType", width |-> 0, height |-> 0, refresh |-> 0]

\* DisplayMode.to_dict, lines 20-21: a dict of the three numbers
DisplayModeToDictSwapped(m) ==
    [width |-> m.height, height |-> m.width, refresh |-> m.refresh]
DisplayModeToDict(m) ==
    [width |-> m.width, height |-> m.height, refresh |-> m.refresh]

MaxModes == 3

\* GPUProfile objects with every dataclass field
FullProfiles ==
    {[id |-> id, name |-> p.name, manufacturer |-> p.manufacturer,
      driver_version |-> p.driver_version, driver_date |-> p.driver_date,
      vram_mb |-> p.vram_mb, vram_type |-> p.vram_type,
      cuda_cores |-> p.cuda_cores, stream_processors |-> p.stream_processors,
      base_clock_mhz |-> p.base_clock_mhz, boost_clock_mhz |-> p.boost_clock_mhz,
      memory_clock_mhz |-> p.memory_clock_mhz,
      memory_bus_width |-> p.memory_bus_width, tdp_watts |-> p.tdp_watts,
      pci_device_id |-> p.pci_device_id, pci_vendor_id |-> p.pci_vendor_id,
      subsystem_id |-> sub, device_description |-> dd,
      video_processor |-> p.video_processor, dac_type |-> p.dac_type,
      adapter_compatibility |-> p.adapter_compatibility,
      registry_entries |-> p.registry_entries,
      display_modes |-> modes, features |-> p.features] :
        id \in {"", "rtx"}, sub \in {"", "16F31043"},
        dd \in {"", "Custom Desc"},
        \* lists of up to MaxModes modes: two modes have the same area, and the
        \* widest mode is not the largest
        modes \in UNION {[1..n -> {DisplayMode(1920, 1080, 60),
                                   DisplayMode(1080, 1920, 60),
                                   DisplayMode(2560, 1080, 60),
                                   DisplayMode(1920, 1600, 144)}] : n \in 0..MaxModes},
        p \in {q \in Profiles : /\ q.manufacturer = "NVIDIA"
                                 /\ q.vram_mb = 8192
                                 /\ q.name = "GeForce RTX 4090"
                                 /\ q.pci_vendor_id = "10DE"
                                 /\ q.pci_device_id = "2684"
                                 /\ Len(q.registry_entries) <= 1}}

\* GPUProfile.get_max_resolution, lines 100-104: max() returns the first of
\* the modes with the largest key
get_max_resolution_widest(self) ==
    IF self.display_modes = <<>> THEN NoMode
    ELSE LET ms == self.display_modes
         IN  ms[CHOOSE i \in 1..Len(ms) :
                   /\ \A j \in 1..Len(ms) : ms[j].width <= ms[i].width
                   /\ \A j \in 1..(i - 1) : ms[j].width < ms[i].width]
get_max_resolution(self) ==
    IF self.display_modes = <<>> THEN NoMode
    ELSE LET ms == self.display_modes
             key(m) == m.width * m.height
         IN  ms[CHOOSE i \in 1..Len(ms) :
                   /\ \A j \in 1..Len(ms) : key(ms[j]) <= key(ms[i])
                   /\ \A j \in 1..(i - 1) : key(ms[j]) < key(ms[i])]

\* GPUProfile.to_dict, lines 106-133
GPUProfileToDict(self) ==
    [id |-> self.id, name |-> self.name, manufacturer |-> self.manufacturer,
     driver_version |-> self.driver_version, driver_date |-> self.driver_date,
     vram_mb |-> self.vram_mb, vram_type |-> self.vram_type,
     cuda_cores |-> self.cuda_cores, stream_processors |-> self.stream_processors,
     base_clock_mhz |-> self.base_clock_mhz,
     boost_clock_mhz |-> self.boost_clock_mhz,
     memory_clock_mhz |-> self.memory_clock_mhz,
     memory_bus_width |-> self.memory_bus_width, tdp_watts |-> self.tdp_watts,
     pci_device_id |-> self.pci_device_id, pci_vendor_id |-> self.pci_vendor_id,
     subsystem_id |-> self.subsystem_id,
     device_description |-> self.device_description,
     video_processor |-> self.video_processor, dac_type |-> self.dac_type,
     adapter_compatibility |-> self.adapter_compatibility,
     registry_entries |-> self.registry_entries,
     display_modes |-> [i \in 1..Len(self.display_modes) |->
                           DisplayModeToDict(self.display_modes[i])],
     features |-> self.features]

\* data.get(key, default)
Get(data, key, default) == IF key \in DOMAIN data THEN data[key] ELSE default

\* GPUProfile.from_dict, lines 135-172
GPUProfileFromDict(data) ==
    LET modes == Get(data, "display_modes", <<>>)
        display_modes ==
            [i \in 1..Len(modes) |->
                DisplayMode(modes[i].width, modes[i].height, modes[i].refresh)]
    IN  [id |-> Get(data, "id", ""),
         name |-> Get(data, "name", "Unknown GPU"),
         manufacturer |-> Get(data, "manufacturer", "Unknown"),
         driver_version |-> Get(data, "driver_version", "1.0.0"),
         driver_date |-> Get(data, "driver_date", ""),
         vram_mb |-> Get(data, "vram_mb", 0),
         vram_type |-> Get(data, "vram_type", "GDDR5"),
         cuda_cores |-> Get(data, "cuda_cores", 0),
         stream_processors |-> Get(data, "stream_processors", 0),
         base_clock_mhz |-> Get(data, "base_clock_mhz", 0),
         boost_clock_mhz |-> Get(data, "boost_clock_mhz", 0),
         memory_clock_mhz |-> Get(data, "memory_clock_mhz", 0),
         memory_bus_width |-> Get(data, "memory_bus_width", 256),
         tdp_watts |-> Get(data, "tdp_watts", 0),
         pci_device_id |-> Get(data, "pci_device_id", ""),
         pci_vendor_id |-> Get(data, "pci_vendor_id", ""),
         subsystem_id |-> Get(data, "subsystem_id", ""),
         device_description |->
             Get(data, "device_description", Get(data, "name", "")),
         video_processor |-> Get(data, "video_processor", ""),
         dac_type |-> Get(data, "dac_type", "Integrated RAMDAC"),
         adapter_compatibility |-> Get(data, "adapter_compatibility", ""),
         registry_entries |-> Get(data, "registry_entries", <<>>),
         display_modes |-> display_modes,
         features |-> Get(data, "features", <<>>)]

\* GPUProfile.vram_bytes: vram_mb * 1024 * 1024
vram_bytes(p) == [neg |-> FALSE, d |-> StripZeros(<<0>> \o Limbs(p.vram_mb * 16))]

is_nvidia(p) == Contains(StrChars("NVIDIA"), Upper(StrChars(p.manufacturer)))

is_amd(p) ==
    \/ Contains(StrChars("AMD"), Upper(StrChars(p.manufacturer)))
    \/ Contains(StrChars("ATI"), Upper(StrChars(p.manufacturer)))

(***************************************************************************)
(* DetectionBypass (src/hooks/detection_bypass.py)                        *)
(***************************************************************************)
\* get_registry_entries: the profile's entries, then the standard entries
\* that are not present
AddIfAbsent(d, name, value) ==
    IF name \in DictNames(d) THEN d
    ELSE Append(d, [name |-> name, value |-> value])

get_registry_entries(p) ==
    IF p = NoProfile THEN <<>>
    ELSE LET e0 == p.registry_entries
             e1 == AddIfAbsent(e0, "DriverDesc", StrVal(p.name))
             e2 == AddIfAbsent(e1, "HardwareInformation.AdapterString", StrVal(p.name))
             e3 == AddIfAbsent(e2, "HardwareInformation.MemorySize", IntVal(vram_bytes(p)))
         IN  AddIfAbsent(e3, "ProviderName", StrVal(p.manufacturer))

get_bypass_status(p) ==
    [Registry |-> IF p # NoProfile THEN "active" ELSE "unavailable",
     WMI      |-> IF p # NoProfile THEN "active" ELSE "unavailable",
     NVAPI    |-> IF p # NoProfile /\ is_nvidia(p) THEN "partial" ELSE "unavailable",
     ADL      |-> IF p # NoProfile /\ is_amd(p) THEN "partial" ELSE "unavailable",
     DXGI     |-> IF p # NoProfile THEN "partial" ELSE "unavailable",
     PCI      |-> "unavailable"]

\* --- return values: a returned value, or the exception that left the call
Returned(v) == [raised |-> "", value |-> v]
Raises(exc) == [raised |-> exc, value |-> <<>>]

\* dict.get(name, default) on registry_entries and on features
EntryGet(d, name, default) ==
    IF name \in DictNames(d) THEN DictGet(d, name) ELSE default
FeatureGet(f, k, default) == IF k \in DOMAIN f THEN f[k] ELSE default

\* x or y for str operands
StrOr(x, y) == IF x # "" THEN x ELSE y

\* `sub in p.name`
NameHas(p, sub) == Contains(StrChars(sub), StrChars(p.name))

\* _generate_pnp_id, lines 296-316
generate_pnp_id(p) ==
    IF p = NoProfile THEN Returned("")
    ELSE IF ~HasAttr("hardware_ids") THEN Raises("AttributeError")
    ELSE LET vendor0 == StrOr(p.pci_vendor_id, "10DE")
             device0 == StrOr(p.pci_device_id, "0000")
             parts   == Split(StrChars(device0), "-")
             two     == Contains(<<"-">>, StrChars(device0)) /\ Len(parts) = 2
             vendor    == IF two THEN JoinChars(parts[1]) ELSE vendor0
             device_id == IF two THEN JoinChars(parts[2]) ELSE device0
         IN  Returned("PCI\\VEN_" \o vendor \o "&DEV_" \o device_id
                      \o "&SUBSYS_00000000&REV_A1")

\* _generate_device_id_string, lines 318-333
generate_device_id_string(p) ==
    IF p = NoProfile THEN "0x0000"
    ELSE LET vendor == StrOr(p.pci_vendor_id, "10DE")
             parts  == Split(StrChars(p.pci_device_id), "-")
             device == IF p.pci_device_id = "" THEN "0000"
                       ELSE IF Contains(<<"-">>, StrChars(p.pci_device_id))
                       THEN (IF Len(parts) = 2 THEN JoinChars(parts[2])
                             ELSE JoinChars(parts[1]))
                       ELSE p.pci_device_id
         IN  "0x" \o vendor \o " / 0x" \o device

\* generate_wmi_data, lines 120-133: the defaults, given the PNP id
WmiDefaults(p, pnp) ==
    [Name |-> p.name,
     Description |-> p.name,
     VideoProcessor |-> StrOr(p.video_processor, p.name),
     AdapterRAM |-> vram_bytes(p),
     AdapterDACType |-> p.dac_type,
     DriverVersion |-> p.driver_version,
     DriverDate |-> p.driver_date,
     AdapterCompatibility |-> StrOr(p.adapter_compatibility, p.manufacturer),
     VideoModeDescription |-> "1920 x 1080 x 4294967296 colors",
     Status |-> "OK",
     PNPDeviceID |-> pnp,
     DeviceID |-> "VideoController1"]

\* generate_wmi_data, lines 114-139
generate_wmi_data(p) ==
    IF p = NoProfile THEN Returned(<<>>)
    ELSE LET pnp == generate_pnp_id(p)
         IN  IF pnp.raised # "" THEN Raises(pnp.raised)
             ELSE IF ~HasAttr("wmi_data") THEN Raises("AttributeError")
             ELSE Returned(WmiDefaults(p, pnp.value))

\* generate_nvapi_data, lines 154-189
NvapiDefaults(p) ==
    [gpu_name |-> p.name,
     gpu_type |-> "DISCRETE",
     architecture |->
        IF NameHas(p, "780") \/ NameHas(p, "750") THEN "Kepler"
        ELSE IF NameHas(p, "980") \/ NameHas(p, "970") THEN "Maxwell"
        ELSE IF NameHas(p, "1080") \/ NameHas(p, "1070") THEN "Pascal"
        ELSE IF NameHas(p, "2080") \/ NameHas(p, "2070") THEN "Turing"
        ELSE IF NameHas(p, "3080") \/ NameHas(p, "3070") \/ NameHas(p, "3090")
             THEN "Ampere"
        ELSE "Ada Lovelace",
     bus_type |-> IF NameHas(p, "40") THEN "PCI Express x16 Gen4"
                  ELSE "PCI Express x16 Gen3",
     vram_size_kb |-> p.vram_mb * 1024,
     vram_type |-> p.vram_type,
     vram_bus_width |-> p.memory_bus_width,
     cuda_cores |-> p.cuda_cores,
     base_clock_khz |-> p.base_clock_mhz * 1000,
     boost_clock_khz |-> p.boost_clock_mhz * 1000,
     memory_clock_khz |-> p.memory_clock_mhz * 1000,
     tdp_watts |-> p.tdp_watts,
     thermal_limit_c |-> IF NameHas(p, "40") THEN 83 ELSE 90,
     power_limit_percent |-> 100,
     driver_version |-> p.driver_version,
     bios_version |-> EntryGet(p.registry_entries, "HardwareInformation.BiosString",
                               StrVal("Unknown")),
     ray_tracing |-> FeatureGet(p.features, "ray_tracing", FALSE),
     dlss |-> FeatureGet(p.features, "dlss", FALSE),
     nvenc |-> FeatureGet(p.features, "nvenc", TRUE)]

\* generate_nvapi_data, lines 148-195
generate_nvapi_data(p) ==
    IF p = NoProfile \/ ~is_nvidia(p) THEN Returned(<<>>)
    ELSE IF ~HasAttr("nvapi_data") THEN Raises("AttributeError")
    ELSE Returned(NvapiDefaults(p))

\* generate_adl_data, lines 210-236
AdlDefaults(p) ==
    [adapter_name |-> p.name,
     adapter_type |-> "DISCRETE",
     architecture |->
        IF NameHas(p, "6800") \/ NameHas(p, "6900") THEN "RDNA 2"
        ELSE IF NameHas(p, "5700") \/ NameHas(p, "5600") THEN "RDNA"
        ELSE IF NameHas(p, "580") \/ NameHas(p, "570") THEN "Polaris"
        ELSE "RDNA 3",
     bus_type |-> "PCI Express x16 Gen4",
     memory_size_mb |-> p.vram_mb,
     memory_type |-> p.vram_type,
     memory_bus_width |-> p.memory_bus_width,
     stream_processors |-> p.stream_processors,
     core_clock_mhz |-> p.base_clock_mhz,
     boost_clock_mhz |-> p.boost_clock_mhz,
     memory_clock_mhz |-> p.memory_clock_mhz,
     tdp_watts |-> p.tdp_watts,
     driver_version |-> p.driver_version,
     bios_version |-> EntryGet(p.registry_entries, "HardwareInformation.BiosString",
                               StrVal("Unknown")),
     ray_tracing |-> FeatureGet(p.features, "ray_tracing", FALSE),
     fsr |-> TRUE]

\* generate_adl_data, lines 204-242
generate_adl_data(p) ==
    IF p = NoProfile \/ ~is_amd(p) THEN Returned(<<>>)
    ELSE IF ~HasAttr("adl_data") THEN Raises("AttributeError")
    ELSE Returned(AdlDefaults(p))

\* generate_speccy_data, lines 249-266
generate_speccy_data(p) ==
    IF p = NoProfile THEN Returned(<<>>)
    ELSE Returned(
        ("Manufacturer" :> p.manufacturer) @@ ("Model" :> p.name)
        @@ ("Device ID" :> generate_device_id_string(p))
        @@ ("Revision" :> "A1")
        @@ ("Driver Version" :> p.driver_version)
        @@ ("Driver Date" :> p.driver_date)
        @@ ("Memory" :> ToString(p.vram_mb) \o " MB")
        @@ ("Memory Type" :> p.vram_type)
        @@ ("Bus Width" :> ToString(p.memory_bus_width) \o "-bit")
        @@ ("Current Resolution" :> "1920 x 1080 @ 60 Hz")
        @@ ("DAC Type" :> p.dac_type))

\* generate_hwinfo_data, lines 273-294
generate_hwinfo_data(p) ==
    IF p = NoProfile THEN Returned(<<>>)
    ELSE Returned(
        ("GPU" :> p.name)
        @@ ("GPU Codename" :> EntryGet(p.registry_entries, "HardwareInformation.ChipType",
                                       StrVal("Unknown")))
        @@ ("Vendor" :> p.manufacturer) @@ ("Subvendor" :> p.manufacturer)
        @@ ("Device ID" :> generate_device_id_string(p))
        @@ ("VRAM Size" :> ToString(p.vram_mb) \o " MB")
        @@ ("VRAM Type" :> p.vram_type)
        @@ ("VRAM Bus Width" :> ToString(p.memory_bus_width) \o " bit")
        @@ ("GPU Clock (Base)" :> ToString(p.base_clock_mhz) \o " MHz")
        @@ ("GPU Clock (Boost)" :> ToString(p.boost_clock_mhz) \o " MHz")
        @@ ("Memory Clock" :> ToString(p.memory_clock_mhz) \o " MHz")
        @@ ("Shader Units" :> IF p.cuda_cores # 0 THEN p.cuda_cores
                              ELSE p.stream_processors)
        @@ ("TDP" :> ToString(p.tdp_watts) \o " W")
        @@ ("Driver Version" :> p.driver_version)
        @@ ("BIOS Version" :> EntryGet(p.registry_entries, "HardwareInformation.BiosString",
                                       StrVal("Unknown"))))

\* the profile object after get_registry_entries with the additions stored
\* into its own registry_entries dict
ProfileAfterGetEntriesInPlace(p) ==
    IF p = NoProfile THEN p
    ELSE [p EXCEPT !.registry_entries = get_registry_entries(p)]

\* the profile object after get_registry_entries: line 346 takes a copy of
\* registry_entries (or a new dict), and the additions go to that copy
ProfileAfterGetEntries(p) == p

\* the last call made on the DetectionBypass: its name, the profile it was
\* made on, what it returned or raised, and whether it repeats the call
\* before it on the same profile
NoOut ==
    [call |-> "none", of |-> NoProfile, again |-> FALSE, raised |-> "",
     status |-> get_bypass_status(NoProfile), entries |-> <<>>, value |-> <<>>]

BpRecord(call, ret, status, entries) ==
    [call |-> call, of |-> bpProfile,
     again |-> (bpOut.call = call /\ bpOut.of = bpProfile),
     raised |-> ret.raised, status |-> status, entries |-> entries,
     value |-> ret.value]

BpSetProfile(p) ==
    /\ bpProfile' = p
    /\ UNCHANGED <<bpOut, gzAdapter>>

BpGetBypassStatus ==
    /\ bpOut' = BpRecord("get_bypass_status", Returned(<<>>),
                         get_bypass_status(bpProfile), <<>>)
    /\ UNCHANGED <<bpProfile, gzAdapter>>

BpGetRegistryEntries ==
    /\ bpOut' = BpRecord("get_registry_entries", Returned(<<>>),
                         get_bypass_status(NoProfile), get_registry_entries(bpProfile))
    /\ bpProfile' = ProfileAfterGetEntries(bpProfile)
    /\ UNCHANGED gzAdapter

\* a generate_* call: the value it returns or the exception it raises
BpGenerate(call, ret) ==
    /\ bpOut' = BpRecord(call, ret, get_bypass_status(NoProfile), <<>>)
    /\ UNCHANGED <<bpProfile, gzAdapter>>

(***************************************************************************)
(* GPUZBypass (src/hooks/gpuz_bypass.py): the DXGI adapter record         *)
(***************************************************************************)
\* GPUZBypass._fake_adapter is None
NoAdapter ==
    [description |-> "None", vendor_id |-> 0, device_id |-> 0, subsys_id |-> 0,
     revision |-> 0, dedicated_video_memory |-> PyInt(0),
     dedicated_system_memory |-> 0, shared_system_memory |-> 0]

\* int(s, 16) inside try/except ValueError: the default stays on an error
HexOr(cs, default) == IF HexInt(cs) = ValueError THEN default ELSE HexInt(cs)

\* _create_fake_adapter, lines 61-93
create_fake_adapter(profile) ==
    LET vendor0 == HexInt(StrChars("10DE"))
        device0 == HexInt(StrChars("2684"))
        vendor_id == IF profile.pci_vendor_id # ""
                     THEN HexOr(StrChars(profile.pci_vendor_id), vendor0)
                     ELSE vendor0
        parts == Split(StrChars(profile.pci_device_id), "-")
        device_id == IF profile.pci_device_id # ""
                     THEN (IF Len(parts) = 2 THEN HexOr(parts[2], device0)
                           ELSE HexOr(StrChars(profile.pci_device_id), device0))
                     ELSE device0
    IN  [description |-> profile.name, vendor_id |-> vendor_id,
         device_id |-> device_id, subsys_id |-> 0,
         revision |-> HexInt(<<"A", "1">>),
         dedicated_video_memory |-> vram_bytes(profile),
         dedicated_system_memory |-> 0, shared_system_memory |-> 0]

\* GPUZBypass.set_profile with the profile the DetectionBypass holds
GzSetProfile ==
    /\ bpProfile # NoProfile
    /\ gzAdapter' = create_fake_adapter(bpProfile)
    /\ UNCHANGED <<bpProfile, bpOut>>

(***************************************************************************)
(* BackupManager (src/registry/backup_manager.py)                         *)
(***************************************************************************)
\* BackupManager.GPU_REGISTRY_PATHS
GPU_REGISTRY_PATHS == <<"Video", "Class", "GraphicsDrivers">>

\* create_backup: the path of the exported file when reg.exe exits with 0,
\* None on a non-zero exit code or an exception
create_backup(registry_path, exported) ==
    IF exported THEN registry_path ELSE None

(***************************************************************************)
(* GPURegistry.apply_gpu_profile (src/registry/gpu_registry.py)           *)
(***************************************************************************)
MaxApplies == 2

RegVal(type, i, s, b) == [type |-> type, i |-> i, s |-> s, b |-> b]
NoValue      == RegVal("absent", PyInt(0), "", <<>>)
Raised(exc)  == RegVal(exc, PyInt(0), "", <<>>)

\* winreg.SetValueEx converts the data to the registry type before the write:
\* REG_DWORD takes an unsigned 32-bit int, REG_QWORD an unsigned 64-bit int
SetValueExData(type, value) ==
    CASE type = "REG_DWORD" ->
            IF value.i.neg \/ Len(value.i.d) > 2 THEN Raised("OverflowError")
            ELSE RegVal(type, value.i, "", <<>>)
      [] type = "REG_QWORD" ->
            IF value.i.neg \/ Len(value.i.d) > 4 THEN Raised("OverflowError")
            ELSE RegVal(type, value.i, "", <<>>)
      [] type = "REG_SZ" -> RegVal(type, PyInt(0), value.s, <<>>)
      [] OTHER -> RegVal(type, PyInt(0), "", value.b)

\* EncodeEntry with the size test ahead of the qwMemorySize test
EncodeEntryWideFirst(name, value) ==
    IF value.t = "int" THEN
        IF GtMaxDword(value.i) THEN SetValueExData("REG_QWORD", value)
        ELSE IF Contains(StrChars("qwMemorySize"), StrChars(name)) THEN
            IF Overflows8(value.i) THEN Raised("OverflowError")
            ELSE SetValueExData("REG_BINARY", BytesVal(ToBytes8LE(value.i)))
        ELSE SetValueExData("REG_DWORD", value)
    ELSE IF value.t = "str" THEN SetValueExData("REG_SZ", value)
    ELSE IF value.t = "bytes" THEN SetValueExData("REG_BINARY", value)
    ELSE Raised("skip")

\* the isinstance chain of the loop body: the value SetValueEx is asked to
\* store, an exception raised before the write, or "skip" when no branch
\* matches
EncodeEntry(name, value) ==
    IF value.t = "int" THEN
        IF Contains(StrChars("qwMemorySize"), StrChars(name)) THEN
            IF Overflows8(value.i) THEN Raised("OverflowError")
            ELSE LET binary_value == ToBytes8LE(value.i)
                 IN  SetValueExData("REG_BINARY", BytesVal(binary_value))
        ELSE IF GtMaxDword(value.i) THEN SetValueExData("REG_QWORD", value)
        ELSE SetValueExData("REG_DWORD", value)
    ELSE IF value.t = "str" THEN SetValueExData("REG_SZ", value)
    ELSE IF value.t = "bytes" THEN SetValueExData("REG_BINARY", value)
    ELSE Raised("skip")

regVars == <<regPc, regProfile, regCreateBackups, regBackupIdx, regBackups,
             regIdx, regKey, regWritten, regFailed, regRet, regApplies, registry>>

\* lines 217-221: entry; the backup runs first when backups are enabled
RegApplyStart(p) ==
    /\ regPc = "idle"
    /\ regApplies < MaxApplies
    /\ regApplies' = regApplies + 1
    /\ regProfile' = p
    /\ regPc' = IF regCreateBackups THEN "backup" ELSE "open"
    /\ regBackupIdx' = 1
    /\ regBackups' = <<>>
    /\ regIdx' = 1
    /\ regKey' = None
    /\ regWritten' = {}
    /\ regFailed' = {}
    /\ regRet' = FALSE
    /\ UNCHANGED <<regCreateBackups, registry>>

\* RegBackupStep with a failed export treated as a hard failure of the apply
RegBackupStepStrict ==
    /\ regPc = "backup"
    /\ \E exported \in BOOLEAN :
          LET backup_path == create_backup(GPU_REGISTRY_PATHS[regBackupIdx], exported)
          IN  IF backup_path # None
              THEN /\ regBackups' = Append(regBackups, backup_path)
                   /\ regPc' = IF regBackupIdx = Len(GPU_REGISTRY_PATHS)
                               THEN "open" ELSE "backup"
                   /\ UNCHANGED regRet
              ELSE /\ regRet' = FALSE
                   /\ regPc' = "done"
                   /\ UNCHANGED regBackups
    /\ regBackupIdx' = regBackupIdx + 1
    /\ UNCHANGED <<regProfile, regCreateBackups, regIdx, regKey, regWritten,
                   regFailed, regApplies, registry>>

\* create_full_gpu_backup: one create_backup per path, failures are dropped
RegBackupStep ==
    /\ regPc = "backup"
    /\ \E exported \in BOOLEAN :
          LET backup_path == create_backup(GPU_REGISTRY_PATHS[regBackupIdx], exported)
          IN  regBackups' = IF backup_path # None
                            THEN Append(regBackups, backup_path) ELSE regBackups
    /\ regBackupIdx' = regBackupIdx + 1
    /\ regPc' = IF regBackupIdx = Len(GPU_REGISTRY_PATHS) THEN "open" ELSE "backup"
    /\ UNCHANGED <<regProfile, regCreateBackups, regIdx, regKey, regWritten,
                   regFailed, regRet, regApplies, registry>>

\* lines 223-233: winreg.OpenKey; OSError returns False
RegOpenKey ==
    /\ regPc = "open"
    /\ \E opened \in BOOLEAN :
          IF opened
          THEN /\ regKey' = "open"
               /\ regPc' = "write"
               /\ UNCHANGED regRet
          ELSE /\ regRet' = FALSE
               /\ regPc' = "done"
               /\ UNCHANGED regKey
    /\ UNCHANGED <<regProfile, regCreateBackups, regBackupIdx, regBackups, regIdx,
                   regWritten, regFailed, regApplies, registry>>

\* RegWriteField on a subkey that is rebuilt by each write: the values
\* under the other names are dropped
RegWriteFieldRebuild ==
    /\ regPc = "write"
    /\ regIdx <= Len(regProfile.registry_entries)
    /\ LET name  == regProfile.registry_entries[regIdx].name
           value == regProfile.registry_entries[regIdx].value
           data  == EncodeEntry(name, value)
       IN  CASE data.type = "OverflowError" ->
                  /\ regRet' = FALSE
                  /\ regKey' = "closed"
                  /\ regPc' = "done"
                  /\ UNCHANGED <<regIdx, regWritten, regFailed, registry>>
             [] data.type = "skip" ->
                  /\ regIdx' = regIdx + 1
                  /\ UNCHANGED <<regRet, regKey, regPc, regWritten, regFailed, registry>>
             [] OTHER ->
                  /\ \E oserror \in BOOLEAN :
                        IF oserror
                        THEN /\ regFailed' = regFailed \cup {name}
                             /\ UNCHANGED <<regWritten, registry>>
                        ELSE /\ registry' = [n \in DOMAIN registry |->
                                               IF n = name THEN data ELSE NoValue]
                             /\ regWritten' = regWritten \cup {name}
                             /\ UNCHANGED regFailed
                  /\ regIdx' = regIdx + 1
                  /\ UNCHANGED <<regRet, regKey, regPc>>
    /\ UNCHANGED <<regProfile, regCreateBackups, regBackupIdx, regBackups, regApplies>>

\* lines 237-263: one iteration of the loop over registry_entries.items().
\* OSError of SetValueEx is caught per field; any other exception leaves
\* the loop through the outer handler (lines 268-272).
RegWriteField ==
    /\ regPc = "write"
    /\ regIdx <= Len(regProfile.registry_entries)
    /\ LET name  == regProfile.registry_entries[regIdx].name
           value == regProfile.registry_entries[regIdx].value
           data  == EncodeEntry(name, value)
       IN  CASE data.type = "OverflowError" ->
                  /\ regRet' = FALSE
                  /\ regKey' = "closed"
                  /\ regPc' = "done"
                  /\ UNCHANGED <<regIdx, regWritten, regFailed, registry>>
             [] data.type = "skip" ->
                  /\ regIdx' = regIdx + 1
                  /\ UNCHANGED <<regRet, regKey, regPc, regWritten, regFailed, registry>>
             [] OTHER ->
                  /\ \E oserror \in BOOLEAN :
                        IF oserror
                        THEN /\ regFailed' = regFailed \cup {name}
                             /\ UNCHANGED <<regWritten, registry>>
                        ELSE /\ registry' = [registry EXCEPT ![name] = data]
                             /\ regWritten' = regWritten \cup {name}
                             /\ UNCHANGED regFailed
                  /\ regIdx' = regIdx + 1
                  /\ UNCHANGED <<regRet, regKey, regPc>>
    /\ UNCHANGED <<regProfile, regCreateBackups, regBackupIdx, regBackups, regApplies>>

\* lines 265-266 and 271-272: the loop is exhausted
RegReturnTrue ==
    /\ regPc = "write"
    /\ regIdx > Len(regProfile.registry_entries)
    /\ regRet' = TRUE
    /\ regKey' = "closed"
    /\ regPc' = "done"
    /\ UNCHANGED <<regProfile, regCreateBackups, regBackupIdx, regBackups, regIdx,
                   regWritten, regFailed, regApplies, registry>>

\* the caller takes the result (InstallWorker.run, lines 269-276)
RegCallerResumes ==
    /\ regPc = "done"
    /\ regPc' = "idle"
    /\ UNCHANGED <<regProfile, regCreateBackups, regBackupIdx, regBackups, regIdx,
                   regKey, regWritten, regFailed, regRet, regApplies, registry>>

(***************************************************************************)
(* ConfigManager (src/core/config_manager.py).  One profiles directory    *)
(* and one marker file are shared by the ConfigManager instances of the   *)
(* applications (GPU-SIM, NVIDIA Control Panel).  A call is one step: the *)
(* class is used from one thread.  File I/O itself is taken to succeed.   *)
(***************************************************************************)
MaxOps == 3

Managers == {"gpu_sim", "control_panel"}

BaseIds == {"rtx", "rx"}

\* a key that a JSON document does not have
Absent == "<absent>"

\* documents offered to import_profile: the content of the import file
Docs == [json : {TRUE}, id : BaseIds, name : {"GeForce RTX 4090", "Radeon RX 7900"}, registry_entries : {<<>>}]

\* a file whose content is not well-formed JSON
BadJson == [json |-> FALSE, id |-> Absent, name |-> Absent, registry_entries |-> <<>>]

\* Python None in a slot of type Optional[GPUProfile]
NoDoc == [id |-> "None", name |-> "None", registry_entries |-> <<>>]

\* GPUProfile.from_dict on the keys the store reads: data.get with defaults
from_dict(data) ==
    [id   |-> IF data.id = Absent THEN "" ELSE data.id,
     name |-> IF data.name = Absent THEN "Unknown GPU" ELSE data.name,
     registry_entries |-> data.registry_entries]

\* GPUProfile.to_dict as json.dump writes it
to_dict(profile) ==
    [json |-> TRUE, id |-> profile.id, name |-> profile.name,
     registry_entries |-> profile.registry_entries]

\* json.dump raises TypeError on a bytes value
JsonSerializable(profile) ==
    \A i \in 1..Len(profile.registry_entries) :
        profile.registry_entries[i].value.t # "bytes"

\* a profile built in code whose registry_entries hold a bytes value
BytesProfile ==
    [id |-> "rtx", name |-> "GeForce RTX 4090",
     registry_entries |-> <<[name |-> "HardwareInformation.BiosString",
                             value |-> BytesVal(<<1, 2>>)]>>]

\* content of the marker file that is not a JSON document
Unparsable == "<unparsable>"

cmVars == <<files, cmProfiles, cmActive, marker, cmCall, cmOps>>

Call(op, m, id, overwrite, ret) ==
    [op |-> op, m |-> m, id |-> id, overwrite |-> overwrite, ret |-> ret,
     arg |-> NoDoc]

Remove(f, id) == [i \in DOMAIN f \ {id} |-> f[i]]

Put(f, id, doc) == (id :> doc) @@ f

\* save_profile: False when <id>.json exists and overwrite is False;
\* otherwise the file is opened for writing and json.dump runs: on success
\* the profile enters _profiles, on a TypeError the file stays cut short and
\* the handler returns False
save_profile(m, profile, overwrite) ==
    IF profile.id \in DOMAIN files /\ ~overwrite
    THEN [ok |-> FALSE, files |-> files, profiles |-> cmProfiles]
    ELSE IF ~JsonSerializable(profile)
    THEN [ok |-> FALSE, files |-> Put(files, profile.id, BadJson),
          profiles |-> cmProfiles]
    ELSE [ok |-> TRUE,
          files |-> Put(files, profile.id, to_dict(profile)),
          profiles |-> [cmProfiles EXCEPT ![m] = Put(@, profile.id, profile)]]

\* _load_profile_file: None for malformed JSON, else from_dict of the data
load_profile_file(doc) == IF doc.json THEN from_dict(doc) ELSE NoDoc

\* the orders in which glob("*.json") may yield the files
GlobOrders(f) ==
    {o \in [1..Cardinality(DOMAIN f) -> DOMAIN f] :
        \A i, j \in 1..Cardinality(DOMAIN f) : i # j => o[i] # o[j]}

\* load_profiles, lines 136-144: the loop over the files in glob order
RECURSIVE LoadLoop(_, _, _)
LoadLoop(f, order, profiles) ==
    IF order = <<>> THEN profiles
    ELSE LET profile == load_profile_file(f[Head(order)])
         IN  LoadLoop(f, Tail(order),
                      IF profile # NoDoc THEN Put(profiles, profile.id, profile)
                      ELSE profiles)

CmLoadProfiles(m) ==
    /\ cmOps < MaxOps
    /\ cmOps' = cmOps + 1
    /\ \E order \in GlobOrders(files) :
          cmProfiles' = [cmProfiles EXCEPT ![m] = LoadLoop(files, order, <<>>)]
    /\ cmCall' = Call("load_profiles", m, "None", FALSE, "None")
    /\ UNCHANGED <<files, cmActive, marker>>

CmSaveProfile(m, profile, overwrite) ==
    /\ cmOps < MaxOps
    /\ cmOps' = cmOps + 1
    /\ LET r == save_profile(m, profile, overwrite)
       IN  /\ files' = r.files
           /\ cmProfiles' = r.profiles
           /\ cmCall' = [Call("save_profile", m, profile.id, overwrite,
                              IF r.ok THEN "True" ELSE "False")
                         EXCEPT !.arg = profile]
    /\ UNCHANGED <<cmActive, marker>>

\* delete_profile without the reset of _active_profile
CmDeleteProfileKeepActive(m, profile_id) ==
    /\ cmOps < MaxOps
    /\ cmOps' = cmOps + 1
    /\ files' = Remove(files, profile_id)
    /\ cmProfiles' = [cmProfiles EXCEPT ![m] = Remove(@, profile_id)]
    /\ cmCall' = Call("delete_profile", m, profile_id, FALSE, "True")
    /\ UNCHANGED <<marker, cmActive>>

\* delete_profile: unlink the file, drop the entry, clear _active_profile
\* when it is the deleted profile (the attribute, not the property setter)
CmDeleteProfile(m, profile_id) ==
    /\ cmOps < MaxOps
    /\ cmOps' = cmOps + 1
    /\ files' = Remove(files, profile_id)
    /\ cmProfiles' = [cmProfiles EXCEPT ![m] = Remove(@, profile_id)]
    /\ cmActive' = [cmActive EXCEPT ![m] =
                        IF @ # NoDoc /\ @.id = profile_id THEN NoDoc ELSE @]
    /\ cmCall' = [Call("delete_profile", m, profile_id, FALSE, "True")
                  EXCEPT !.arg = IF cmActive[m] # NoDoc /\ cmActive[m].id = profile_id
                                 THEN cmActive[m] ELSE NoDoc]
    /\ UNCHANGED marker

\* active_profile setter, with a profile taken from the loaded set
CmSetActive(m, profile_id) ==
    /\ cmOps < MaxOps
    /\ profile_id \in DOMAIN cmProfiles[m]
    /\ cmOps' = cmOps + 1
    /\ cmActive' = [cmActive EXCEPT ![m] = cmProfiles[m][profile_id]]
    /\ marker' = profile_id
    /\ cmCall' = Call("active_profile", m, profile_id, FALSE, "None")
    /\ UNCHANGED <<files, cmProfiles>>

\* active_profile setter with None: _clear_active_profile removes the marker
CmClearActive(m) ==
    /\ cmOps < MaxOps
    /\ cmOps' = cmOps + 1
    /\ cmActive' = [cmActive EXCEPT ![m] = NoDoc]
    /\ marker' = None
    /\ cmCall' = Call("active_profile", m, "None", FALSE, "None")
    /\ UNCHANGED <<files, cmProfiles>>

\* load_active_profile: None when the marker file is missing, when json.load
\* raises, when the id is falsy or when it is not in _profiles
CmLoadActiveProfile(m) ==
    /\ cmOps < MaxOps
    /\ cmOps' = cmOps + 1
    /\ IF /\ marker # None
          /\ marker # Unparsable
          /\ marker # ""
          /\ marker \in DOMAIN cmProfiles[m]
       THEN /\ cmActive' = [cmActive EXCEPT ![m] = cmProfiles[m][marker]]
            /\ cmCall' = Call("load_active_profile", m, "None", FALSE, marker)
       ELSE /\ cmCall' = Call("load_active_profile", m, "None", FALSE, "None")
            /\ UNCHANGED cmActive
    /\ UNCHANGED <<files, cmProfiles, marker>>

\* import_profile of an existing file holding the document data.  A
\* document without id or name is refused.  On a collision with _profiles
\* and overwrite False the id is extended by "_" and the uuid suffix, then
\* the profile goes through save_profile.
CmImportProfile(m, data, overwrite, suffix) ==
    /\ cmOps < MaxOps
    /\ cmOps' = cmOps + 1
    /\ IF ~data.json \/ data.id = Absent \/ data.name = Absent
       THEN /\ cmCall' = Call("import_profile", m, data.id, overwrite, "None")
            /\ UNCHANGED <<files, cmProfiles>>
       ELSE LET new_id  == IF data.id \in DOMAIN cmProfiles[m] /\ ~overwrite
                           THEN data.id \o "_" \o suffix ELSE data.id
                profile == from_dict([data EXCEPT !.id = new_id])
                r       == save_profile(m, profile, overwrite)
            IN  /\ files' = r.files
                /\ cmProfiles' = r.profiles
                /\ cmCall' = Call("import_profile", m, data.id, overwrite,
                                  IF r.ok THEN profile.id ELSE "None")
    /\ UNCHANGED <<cmActive, marker>>

(***************************************************************************)
(* FakeMetricsGenerator (src/metrics/gpu_metrics.py).  float values are   *)
(* kept in thousandths (fixed point); the calling thread and the update   *)
(* threads interleave between the statements of a tick, and between the   *)
(* evaluation of a right-hand side and the store into _current_metrics.   *)
(***************************************************************************)
MaxThreads == 2
MaxTicks   == 1
MaxCalls   == 3
MaxCallbacks == 2

Threads == 1..MaxThreads

simVars == <<simProfile, base, cur, curId, targetLoad, running, updateThread,
             callbacks, wpc, wloc, callerPc, callerArg, ticks, notified, simCalls>>

\* profiles handed to the simulator: the fields the simulator reads
SimProfiles ==
    {[name |-> "GeForce RTX 4090", vram_mb |-> 8192, tdp_watts |-> 250,
      base_clock_mhz |-> 1500, memory_clock_mhz |-> 1313],
     [name |-> "Radeon RX 7900", vram_mb |-> 4096, tdp_watts |-> 100,
      base_clock_mhz |-> 1000, memory_clock_mhz |-> 1250]}

NoSimProfile ==
    [name |-> "None", vram_mb |-> 0, tdp_watts |-> 0,
     base_clock_mhz |-> 0, memory_clock_mhz |-> 0]

\* GPUMetrics(): every field at its default
DefaultMetrics ==
    [gpu_utilization |-> 0, memory_utilization |-> 0,
     encoder_utilization |-> 0, decoder_utilization |-> 0,
     memory_used_mb |-> 0, memory_free_mb |-> 0, memory_total_mb |-> 0,
     gpu_clock_mhz |-> 0, memory_clock_mhz |-> 0,
     temperature_core |-> 0, temperature_memory |-> 0, temperature_hotspot |-> 0,
     power_draw_watts |-> 0, power_limit_watts |-> 0, fan_speed_percent |-> 0]

\* _initialize_from_profile, lines 90-102: the idle state
IdleMetrics(profile) ==
    [DefaultMetrics EXCEPT
        !.memory_total_mb = profile.vram_mb * 1000,
        !.memory_free_mb = profile.vram_mb * 1000,
        !.memory_used_mb = profile.vram_mb * 100,
        !.temperature_core = 40000,
        !.temperature_memory = 38000,
        !.temperature_hotspot = 42000,
        !.power_draw_watts = profile.tdp_watts * 100,
        !.power_limit_watts = profile.tdp_watts * 1000,
        !.fan_speed_percent = 30000,
        !.gpu_clock_mhz = profile.base_clock_mhz,
        !.memory_clock_mhz = profile.memory_clock_mhz]

\* _initialize_from_profile, lines 83-87
BaseMetrics(b, profile) ==
    [b EXCEPT
        !.memory_total_mb = profile.vram_mb * 1000,
        !.memory_free_mb = profile.vram_mb * 1000,
        !.power_limit_watts = profile.tdp_watts * 1000,
        !.gpu_clock_mhz = profile.base_clock_mhz,
        !.memory_clock_mhz = profile.memory_clock_mhz]

Min(a, b) == IF a < b THEN a ELSE b
Max(a, b) == IF a > b THEN a ELSE b

\* _smooth with factor num/den
SmoothJump(current, target, num, den) == target
Smooth(current, target, num, den) == current + ((target - current) * num) \div den

\* values of random.uniform(0, 1), in thousandths
UniformSamples == {0, 1000}

\* subscribers
CallbackIds == {"c1", "c2"}

\* callbacks whose body raises an exception derived from Exception
RaisingCallbacks == {"c2"}

\* ticks of the simulator driven from one thread
MaxSeqTicks == 3

MaxHeldTicks == 70

\* targets of one tick (load and variation in thousandths)
TargetUtilUnclamped(load, variation) == load * 100 + variation * 20
TargetUtil(load, variation) == Max(0, Min(100000, load * 100 + variation * 20))
MemTargetNoBaseline(load, variation) == Max(10000, load * 80 + variation * 10)
MemTarget(load, variation)  == Max(10000, load * 80 + 10000 + variation * 10)
TempTarget(load, variation) == 35000 + load * 50 + variation * 3
PowerTarget(profile, load, variation) ==
    (profile.tdp_watts * (1000 + 9 * load)) \div 10 + variation * 10
FanTarget(temperature_core) ==
    IF temperature_core < 50000 THEN 30000
    ELSE IF temperature_core < 70000 THEN 30000 + (temperature_core - 50000) * 2
    ELSE 70000 + (temperature_core - 70000) * 2
\* Python floats are IEEE 754 doubles: 53 significant bits, every operation
\* rounded to nearest, ties to even.  Significands are held as magnitudes in
\* base 2^16 digits, least significant first.
RECURSIVE BigMul(_, _, _)
BigMul(x, k, carry) ==
    IF x = <<>> THEN Limbs(carry)
    ELSE LET t == Head(x) * k + carry
         IN  <<t % Base>> \o BigMul(Tail(x), k, t \div Base)

RECURSIVE BigDivMod(_, _)
BigDivMod(x, k) ==
    IF x = <<>> THEN [q |-> <<>>, r |-> 0]
    ELSE LET hi == BigDivMod(Tail(x), k)
             t  == hi.r * Base + Head(x)
         IN  [q |-> <<t \div k>> \o hi.q, r |-> t % k]

\* x / k rounded to the nearest integer, ties to even
RoundHalfEven(x, k) ==
    LET d == BigDivMod(x, k)
    IN  StripZeros(IF 2 * d.r > k \/ (2 * d.r = k /\ d.q[1] % 2 = 1)
                   THEN BigMul(d.q, 1, 1) ELSE d.q)

RECURSIVE BigToInt(_)
BigToInt(x) == IF x = <<>> THEN 0 ELSE Head(x) + Base * BigToInt(Tail(x))

\* int(base_clock_mhz * (1.0 + (load * 0.25))) with load = load_percent / 100.0,
\* lines 116 and 175-178, for a whole load_percent in 0..100 (load is held
\* in thousandths):
\*   load       = m1 * 2^-(52+s), the double nearest to load_percent / 100
\*   load*0.25  is exact
\*   1.0 + that = m2 * 2^-52, rounded
\*   the product = m3 * 2^(e-52), rounded, and int() drops its 52 - e
\*   fraction bits
BoostClock(profile, load) ==
    IF load = 0 THEN profile.base_clock_mhz
    ELSE
    LET load_percent == load \div 10
        s  == CHOOSE i \in 0..7 :
                 /\ load_percent * 2^i >= 100
                 /\ i > 0 => load_percent * 2^(i - 1) < 100
        m1 == RoundHalfEven(BigMul(<<0, 0, 0, 16>>, load_percent * 2^s, 0), 100)
        r  == RoundHalfEven(m1, 2^(s + 2))
        m2 == [i \in 1..4 |-> (IF i <= Len(r) THEN r[i] ELSE 0)
                                + (IF i = 4 THEN 16 ELSE 0)]
        p  == BigMul(m2, profile.base_clock_mhz, 0)
        e  == 16 * (Len(p) - 1) - 53
                + (CHOOSE b \in 1..16 : 2^(b - 1) <= p[Len(p)] /\ p[Len(p)] < 2^b)
        m3 == RoundHalfEven(p, 2^e)
        n  == 52 - e
    IN  BigToInt(BigDivMod(SubSeq(m3, n \div 16 + 1, Len(m3)), 2^(n % 16)).q)

NoLocals ==
    [load |-> 0, variation |-> 0, tmp |-> 0, srcId |-> 0, mem_used |-> 0,
     fan_target |-> 0, cbIdx |-> 0, metricsId |-> 0, called |-> <<>>]

\* --- the update thread -------------------------------------------------
Goto(t, pc) == wpc' = [wpc EXCEPT ![t] = pc]
SetLoc(t, loc) == wloc' = [wloc EXCEPT ![t] = loc]

workerFrame == <<simProfile, base, targetLoad, running, updateThread, callbacks,
                 callerPc, callerArg, simCalls>>

\* line 219: while self._running
WLoopCheck(t) ==
    /\ wpc[t] = "loop"
    /\ IF running
       THEN /\ ticks < MaxTicks
            /\ ticks' = ticks + 1
            /\ Goto(t, "calc")
       ELSE /\ Goto(t, "done")
            /\ UNCHANGED ticks
    /\ SetLoc(t, NoLocals)
    /\ UNCHANGED <<workerFrame, cur, curId, notified>>

\* lines 129-139: no profile returns GPUMetrics(); else load and variation
WCalcBegin(t) ==
    /\ wpc[t] = "calc"
    /\ IF simProfile = NoSimProfile
       THEN /\ Goto(t, "notify")
            /\ SetLoc(t, [NoLocals EXCEPT !.cbIdx = 1, !.metricsId = 0])
       \* wave1 + wave2 + noise, in thousandths
       ELSE /\ \E variation \in {0, 150} :
                  SetLoc(t, [NoLocals EXCEPT !.load = targetLoad,
                                             !.variation = variation])
            /\ Goto(t, "util_r")
    /\ UNCHANGED <<workerFrame, cur, curId, ticks, notified>>

\* evaluation of a right-hand side that reads _current_metrics
WRead(t, from, to, value) ==
    /\ wpc[t] = from
    /\ Goto(t, to)
    /\ SetLoc(t, [wloc[t] EXCEPT !.tmp = value, !.srcId = curId])
    /\ UNCHANGED <<workerFrame, cur, curId, ticks, notified>>

\* lines 142-147
WUtilRead(t) ==
    WRead(t, "util_r", "util_w",
          Smooth(cur.gpu_utilization,
                 TargetUtil(wloc[t].load, wloc[t].variation), 3, 10))

WUtilWrite(t) ==
    /\ wpc[t] = "util_w"
    /\ cur' = [cur EXCEPT !.gpu_utilization = wloc[t].tmp]
    /\ Goto(t, "memu_r")
    /\ UNCHANGED <<workerFrame, wloc, curId, ticks, notified>>

\* lines 150-155
WMemUtilRead(t) ==
    WRead(t, "memu_r", "memu_w",
          Smooth(cur.memory_utilization,
                 MemTarget(wloc[t].load, wloc[t].variation), 15, 100))

WMemUtilWrite(t) ==
    /\ wpc[t] = "memu_w"
    /\ cur' = [cur EXCEPT !.memory_utilization = wloc[t].tmp]
    /\ Goto(t, "used_r")
    /\ UNCHANGED <<workerFrame, wloc, curId, ticks, notified>>

\* line 158: mem_used; self._profile is read again (None: AttributeError,
\* which ends the thread)
WMemUsedRead(t) ==
    /\ wpc[t] = "used_r"
    /\ IF simProfile = NoSimProfile
       THEN /\ Goto(t, "crashed")
            /\ UNCHANGED wloc
       ELSE /\ Goto(t, "used_w")
            /\ SetLoc(t, [wloc[t] EXCEPT
                    !.mem_used = (simProfile.vram_mb * cur.memory_utilization) \div 100,
                    !.srcId = curId])
    /\ UNCHANGED <<workerFrame, cur, curId, ticks, notified>>

\* lines 159-160
WMemUsedWrite(t) ==
    /\ wpc[t] = "used_w"
    /\ IF simProfile = NoSimProfile
       THEN /\ cur' = [cur EXCEPT !.memory_used_mb = wloc[t].mem_used]
            /\ Goto(t, "crashed")
       ELSE /\ cur' = [cur EXCEPT
                    !.memory_used_mb = wloc[t].mem_used,
                    !.memory_free_mb = simProfile.vram_mb * 1000 - wloc[t].mem_used]
            /\ Goto(t, "temp_r")
    /\ UNCHANGED <<workerFrame, wloc, curId, ticks, notified>>

\* lines 163-170
WTempRead(t) ==
    WRead(t, "temp_r", "temp_w",
          Smooth(cur.temperature_core,
                 TempTarget(wloc[t].load, wloc[t].variation), 9, 100))

\* lines 166-172: the store, then memory and hotspot temperature
WTempWrite(t) ==
    /\ wpc[t] = "temp_w"
    /\ cur' = [cur EXCEPT !.temperature_core = wloc[t].tmp,
                          !.temperature_memory = wloc[t].tmp - 3000,
                          !.temperature_hotspot = wloc[t].tmp + 8000]
    /\ Goto(t, "clock")
    /\ UNCHANGED <<workerFrame, wloc, curId, ticks, notified>>

\* lines 175-178: the clock is set directly
WClock(t) ==
    /\ wpc[t] = "clock"
    /\ IF simProfile = NoSimProfile
       THEN /\ Goto(t, "crashed")
            /\ UNCHANGED cur
       ELSE /\ cur' = [cur EXCEPT !.gpu_clock_mhz = BoostClock(simProfile, wloc[t].load)]
            /\ Goto(t, "power_r")
    /\ UNCHANGED <<workerFrame, wloc, curId, ticks, notified>>

\* lines 181-186
WPowerRead(t) ==
    /\ wpc[t] = "power_r"
    /\ IF simProfile = NoSimProfile
       THEN /\ Goto(t, "crashed")
            /\ UNCHANGED wloc
       ELSE /\ Goto(t, "power_w")
            /\ SetLoc(t, [wloc[t] EXCEPT
                    !.tmp = Smooth(cur.power_draw_watts,
                                   PowerTarget(simProfile, wloc[t].load, wloc[t].variation),
                                   3, 10),
                    !.srcId = curId])
    /\ UNCHANGED <<workerFrame, cur, curId, ticks, notified>>

WPowerWrite(t) ==
    /\ wpc[t] = "power_w"
    /\ cur' = [cur EXCEPT !.power_draw_watts = wloc[t].tmp]
    /\ Goto(t, "fan_t")
    /\ UNCHANGED <<workerFrame, wloc, curId, ticks, notified>>

\* lines 189-194: fan_target from the stored temperature
WFanTarget(t) ==
    /\ wpc[t] = "fan_t"
    /\ SetLoc(t, [wloc[t] EXCEPT !.fan_target = FanTarget(cur.temperature_core)])
    /\ Goto(t, "fan_r")
    /\ UNCHANGED <<workerFrame, cur, curId, ticks, notified>>

\* lines 196-200
WFanRead(t) ==
    WRead(t, "fan_r", "fan_w",
          Smooth(cur.fan_speed_percent, Min(100000, wloc[t].fan_target), 12, 100))

WFanWrite(t) ==
    /\ wpc[t] = "fan_w"
    /\ cur' = [cur EXCEPT !.fan_speed_percent = wloc[t].tmp]
    /\ Goto(t, "encdec")
    /\ UNCHANGED <<workerFrame, wloc, curId, ticks, notified>>

\* lines 203-211: encoder/decoder are not smoothed; timestamp; return
WEncDec(t) ==
    /\ wpc[t] = "encdec"
    /\ IF wloc[t].load > 300
       THEN \E u1, u2 \in UniformSamples :
               cur' = [cur EXCEPT
                    !.encoder_utilization = (u1 * 30 * wloc[t].load) \div 1000,
                    !.decoder_utilization = (u2 * 20 * wloc[t].load) \div 1000]
       ELSE cur' = [cur EXCEPT !.encoder_utilization = 0,
                               !.decoder_utilization = 0]
    /\ Goto(t, "notify")
    /\ SetLoc(t, [wloc[t] EXCEPT !.cbIdx = 1, !.metricsId = curId])
    /\ UNCHANGED <<workerFrame, curId, ticks, notified>>

\* lines 223-225: the next callback of the list is called
WNotify(t) ==
    /\ wpc[t] = "notify"
    /\ IF wloc[t].cbIdx <= Len(callbacks)
       THEN /\ notified' = notified + 1
            /\ SetLoc(t, [wloc[t] EXCEPT
                          !.cbIdx = @ + 1,
                          !.called = Append(@, callbacks[wloc[t].cbIdx])])
            /\ Goto(t, "in_cb")
       ELSE /\ Goto(t, "sleep")
            /\ UNCHANGED <<notified, wloc>>
    /\ UNCHANGED <<workerFrame, cur, curId, ticks>>

\* the callback that is running on thread t
Running(t) == wloc[t].called[Len(wloc[t].called)]

\* the loop without the try/except around the call: an exception leaves
\* _update_loop and ends the thread
WCallbackEndsUncaught(t) ==
    /\ wpc[t] = "in_cb"
    /\ IF Running(t) \in RaisingCallbacks
       THEN Goto(t, "crashed")
       ELSE Goto(t, "notify")
    /\ UNCHANGED <<workerFrame, wloc, cur, curId, ticks, notified>>

\* lines 225-227: the callback returns, or raises and `except Exception`
\* passes; either way the for loop goes on to the next callback
WCallbackEnds(t) ==
    /\ wpc[t] = "in_cb"
    /\ IF Running(t) \in RaisingCallbacks
       THEN Goto(t, "notify")
       ELSE Goto(t, "notify")
    /\ UNCHANGED <<workerFrame, wloc, cur, curId, ticks, notified>>

\* line 229: time.sleep(0.1) is over
WWake(t) ==
    /\ wpc[t] = "sleep"
    /\ Goto(t, "loop")
    /\ UNCHANGED <<workerFrame, wloc, cur, curId, ticks, notified>>

\* --- the calling thread ------------------------------------------------
callerFrame == <<wloc, ticks, notified>>

NewCall ==
    /\ callerPc = "idle"
    /\ simCalls < MaxCalls
    /\ simCalls' = simCalls + 1

\* start(), lines 231-238
SimStart ==
    /\ NewCall
    /\ IF running
       THEN UNCHANGED <<running, updateThread, wpc>>
       ELSE /\ \E t \in Threads :
                  /\ wpc[t] = "unborn"
                  /\ \A u \in Threads : u < t => wpc[u] # "unborn"
                  /\ wpc' = [wpc EXCEPT ![t] = "loop"]
                  /\ updateThread' = t
            /\ running' = TRUE
    /\ UNCHANGED <<simProfile, base, cur, curId, targetLoad, callbacks, callerPc,
                   callerArg, callerFrame>>

\* stop(), lines 242-243
SimStop ==
    /\ NewCall
    /\ running' = FALSE
    /\ callerPc' = IF updateThread # 0 THEN "join" ELSE "idle"
    /\ UNCHANGED <<simProfile, base, cur, curId, targetLoad, updateThread, callbacks,
                   wpc, callerArg, callerFrame>>

\* stop(), lines 244-245: join returns because the thread has ended
SimJoined ==
    /\ callerPc = "join"
    /\ wpc[updateThread] \in {"done", "crashed"}
    /\ updateThread' = 0
    /\ callerPc' = "idle"
    /\ UNCHANGED <<simProfile, base, cur, curId, targetLoad, running, callbacks,
                   wpc, callerArg, callerFrame, simCalls>>

\* stop(), lines 244-245: join(timeout=1.0) returns after 1.0 s while the
\* thread is still inside a callback that has not returned
SimJoinTimeout ==
    /\ callerPc = "join"
    /\ wpc[updateThread] = "in_cb"
    /\ updateThread' = 0
    /\ callerPc' = "idle"
    /\ UNCHANGED <<simProfile, base, cur, curId, targetLoad, running, callbacks,
                   wpc, callerArg, callerFrame, simCalls>>

\* set_profile, line 106
SimSetProfile(profile) ==
    /\ NewCall
    /\ simProfile' = profile
    /\ callerArg' = profile
    /\ callerPc' = "init_base"
    /\ UNCHANGED <<base, cur, curId, targetLoad, running, updateThread, callbacks,
                   wpc, callerFrame>>

\* set_profile(None): line 106 stores None, then line 83 of
\* _initialize_from_profile reads profile.vram_mb and raises AttributeError,
\* which leaves set_profile with nothing else changed
SimSetProfileNone ==
    /\ NewCall
    /\ simProfile' = NoSimProfile
    /\ UNCHANGED <<base, cur, curId, targetLoad, running, updateThread, callbacks,
                   wpc, callerPc, callerArg, callerFrame>>

\* _initialize_from_profile, lines 83-87
SimInitBase ==
    /\ callerPc = "init_base"
    /\ base' = BaseMetrics(base, callerArg)
    /\ callerPc' = "init_current"
    /\ UNCHANGED <<simProfile, cur, curId, targetLoad, running, updateThread,
                   callbacks, wpc, callerArg, callerFrame, simCalls>>

\* _initialize_from_profile, lines 90-102: a new GPUMetrics object; return
SimInitCurrent ==
    /\ callerPc = "init_current"
    /\ cur' = IdleMetrics(callerArg)
    /\ curId' = curId + 1
    /\ callerPc' = "idle"
    /\ callerArg' = NoSimProfile
    /\ UNCHANGED <<simProfile, base, targetLoad, running, updateThread, callbacks,
                   wpc, callerFrame, simCalls>>

\* set_load, line 116
SimSetLoad(load_percent) ==
    /\ NewCall
    /\ targetLoad' = Max(0, Min(100, load_percent)) * 10
    /\ UNCHANGED <<simProfile, base, cur, curId, running, updateThread, callbacks,
                   wpc, callerPc, callerArg, callerFrame>>

\* add_callback, line 120
SimAddCallback(callback) ==
    /\ callerPc = "idle"
    /\ Len(callbacks) < MaxCallbacks
    /\ callbacks' = Append(callbacks, callback)
    /\ UNCHANGED <<simProfile, base, cur, curId, targetLoad, running, updateThread,
                   wpc, callerPc, callerArg, callerFrame, simCalls>>

\* list.remove: the first occurrence is removed
RemoveFirst(list, x) ==
    LET k == CHOOSE i \in 1..Len(list) :
                list[i] = x /\ \A j \in 1..(i - 1) : list[j] # x
    IN  SubSeq(list, 1, k - 1) \o SubSeq(list, k + 1, Len(list))

\* remove_callback, lines 124-125
SimRemoveCallback(callback) ==
    /\ callerPc = "idle"
    /\ \E i \in 1..Len(callbacks) : callbacks[i] = callback
    /\ callbacks' = RemoveFirst(callbacks, callback)
    /\ UNCHANGED <<simProfile, base, cur, curId, targetLoad, running, updateThread,
                   wpc, callerPc, callerArg, callerFrame, simCalls>>

\* --- the simulator driven from one thread -------------------------------
\* _calculate_metrics, lines 132-211, as one call on the snapshot m with a
\* profile: the fields are updated in the order of the code, the fan from
\* the temperature stored just before
calculate_metrics(m, profile, load, variation, u1, u2) ==
    LET util  == Smooth(m.gpu_utilization, TargetUtil(load, variation), 3, 10)
        memu  == Smooth(m.memory_utilization, MemTarget(load, variation), 15, 100)
        mem_used == (profile.vram_mb * memu) \div 100
        temp  == Smooth(m.temperature_core, TempTarget(load, variation), 9, 100)
        power == Smooth(m.power_draw_watts,
                        PowerTarget(profile, load, variation), 3, 10)
        fan   == Smooth(m.fan_speed_percent, Min(100000, FanTarget(temp)), 12, 100)
    IN  [m EXCEPT
            !.gpu_utilization = util,
            !.memory_utilization = memu,
            !.memory_used_mb = mem_used,
            !.memory_free_mb = profile.vram_mb * 1000 - mem_used,
            !.temperature_core = temp,
            !.temperature_memory = temp - 3000,
            !.temperature_hotspot = temp + 8000,
            !.gpu_clock_mhz = BoostClock(profile, load),
            !.power_draw_watts = power,
            !.fan_speed_percent = fan,
            !.encoder_utilization = IF load > 300 THEN (u1 * 30 * load) \div 1000 ELSE 0,
            !.decoder_utilization = IF load > 300 THEN (u2 * 20 * load) \div 1000 ELSE 0]

seqFrame == <<running, updateThread, callbacks, wpc, wloc, callerPc, callerArg,
              notified>>

\* one run of _calculate_metrics; without a profile it returns a fresh
\* GPUMetrics() and leaves _current_metrics alone (lines 129-130)
SeqTick(limit, variation, u1, u2) ==
    /\ ticks < limit
    /\ ticks' = ticks + 1
    /\ cur' = IF simProfile = NoSimProfile THEN cur
              ELSE calculate_metrics(cur, simProfile, targetLoad, variation, u1, u2)
    /\ UNCHANGED <<simProfile, base, curId, targetLoad, simCalls, seqFrame>>

\* set_profile(profile) run to its end, lines 104-107
SeqSetProfile(profile) ==
    /\ simCalls < MaxCalls
    /\ simCalls' = simCalls + 1
    /\ simProfile' = profile
    /\ base' = BaseMetrics(base, profile)
    /\ cur' = IdleMetrics(profile)
    /\ curId' = curId + 1
    /\ UNCHANGED <<targetLoad, ticks, seqFrame>>

\* set_load(load_percent), line 116
SeqSetLoad(load_percent) ==
    /\ simCalls < MaxCalls
    /\ simCalls' = simCalls + 1
    /\ targetLoad' = Max(0, Min(100, load_percent)) * 10
    /\ UNCHANGED <<simProfile, base, cur, curId, ticks, seqFrame>>

(***************************************************************************)
(* Specifications                                                          *)
(***************************************************************************)
bpVars == <<bpProfile, bpOut, gzAdapter>>

vars == <<bpVars, regVars, cmVars, simVars>>

\* state after construction of each component
BpInit ==
    /\ bpProfile = NoProfile
    /\ bpOut = NoOut
    /\ gzAdapter = NoAdapter

RegIdle ==
    /\ regPc = "idle"
    /\ regProfile = NoProfile
    /\ regBackupIdx = 1
    /\ regBackups = <<>>
    /\ regIdx = 1
    /\ regKey = None
    /\ regWritten = {}
    /\ regFailed = {}
    /\ regRet = FALSE
    /\ regApplies = 0

RegInit ==
    /\ RegIdle
    /\ regCreateBackups \in BOOLEAN
    \* values of the adapter subkey before the first apply
    /\ registry \in
          {[n \in EntryNames |-> NoValue],
           [n \in EntryNames |->
               IF n = "DriverDesc"
               THEN RegVal("REG_SZ", PyInt(0), "Basic Display Adapter", <<>>)
               ELSE NoValue]}

RegQuiet ==
    /\ RegIdle
    /\ regCreateBackups = TRUE
    /\ registry = [n \in EntryNames |-> NoValue]

\* ConfigManager.__init__: nothing loaded, no active profile
CmInit ==
    /\ cmProfiles = [m \in Managers |-> <<>>]
    /\ cmActive = [m \in Managers |-> NoDoc]
    /\ cmCall = Call("__init__", "gpu_sim", "None", FALSE, "None")
    /\ cmOps = 0

\* the profiles directory at start: empty, well-formed documents, and
\* documents that are malformed or lack a key
GoodDoc(id, name) == [json |-> TRUE, id |-> id, name |-> name, registry_entries |-> <<>>]

InitialDirs ==
    {<<>>,
     "rtx" :> GoodDoc("rtx", "GeForce RTX 4090"),
     ("rtx" :> GoodDoc("rtx", "GeForce RTX 4090"))
        @@ ("rx" :> GoodDoc("rx", "Radeon RX 7900")),
     ("rtx" :> GoodDoc("rtx", "GeForce RTX 4090")) @@ ("broken" :> BadJson),
     ("rx" :> GoodDoc("rx", "Radeon RX 7900"))
        @@ ("noid" :> GoodDoc(Absent, "GeForce RTX 4090")),
     "noname" :> GoodDoc("gtx", Absent)}

CmQuiet ==
    /\ CmInit
    /\ files = <<>>
    /\ marker = None

\* FakeMetricsGenerator.__init__ with the given profile (or None)
SimInitWith(profile) ==
    /\ simProfile = profile
    /\ base = IF profile = NoSimProfile THEN DefaultMetrics
              ELSE BaseMetrics(DefaultMetrics, profile)
    /\ cur = IF profile = NoSimProfile THEN DefaultMetrics ELSE IdleMetrics(profile)
    /\ curId = IF profile = NoSimProfile THEN 1 ELSE 2
    /\ targetLoad = 0
    /\ running = FALSE
    /\ updateThread = 0
    /\ callbacks = <<>>
    /\ wpc = [t \in Threads |-> "unborn"]
    /\ wloc = [t \in Threads |-> NoLocals]
    /\ callerPc = "idle"
    /\ callerArg = NoSimProfile
    /\ ticks = 0
    /\ notified = 0
    /\ simCalls = 0

SimQuiet == SimInitWith(NoSimProfile)

\* --- identity projector ---
\* profiles given to the projectors: PCI ids vary on the profiles without
\* registry entries, registry entries vary on the profiles without PCI ids
ProjProfiles ==
    {p \in Profiles : \/ p.registry_entries = <<>>
                      \/ (p.pci_vendor_id = "" /\ p.pci_device_id = "")}

\* DetectionBypass(profile): the constructor takes any profile or None;
\* GPUZBypass(): no adapter record yet
ProjInit ==
    /\ bpProfile \in ProjProfiles \cup {NoProfile}
    /\ bpOut = NoOut
    /\ gzAdapter = NoAdapter
    /\ RegQuiet
    /\ CmQuiet
    /\ SimQuiet

projOthers == <<regVars, cmVars, simVars>>

\* set_profile is explored from the instances constructed without a profile
ProjNext ==
    \/ \E p \in ProjProfiles : bpProfile = NoProfile /\ BpSetProfile(p) /\ UNCHANGED projOthers
    \/ BpGetBypassStatus /\ UNCHANGED projOthers
    \/ BpGetRegistryEntries /\ UNCHANGED projOthers
    \/ BpGenerate("generate_wmi_data", generate_wmi_data(bpProfile))
          /\ UNCHANGED projOthers
    \/ BpGenerate("generate_nvapi_data", generate_nvapi_data(bpProfile))
          /\ UNCHANGED projOthers
    \/ BpGenerate("generate_adl_data", generate_adl_data(bpProfile))
          /\ UNCHANGED projOthers
    \/ BpGenerate("generate_speccy_data", generate_speccy_data(bpProfile))
          /\ UNCHANGED projOthers
    \/ BpGenerate("generate_hwinfo_data", generate_hwinfo_data(bpProfile))
          /\ UNCHANGED projOthers
    \/ GzSetProfile /\ UNCHANGED projOthers

SpecProj == ProjInit /\ [][ProjNext]_vars

\* --- a GPUProfile object (held in bpProfile) and the calls made on it; the
\* value a call returns is held in bpOut ---
ModesInit ==
    /\ bpProfile \in FullProfiles
    /\ bpOut = NoOut
    /\ gzAdapter = NoAdapter
    /\ RegQuiet
    /\ CmQuiet
    /\ SimQuiet

ModesNext ==
    \/ BpGenerate("get_max_resolution", Returned(get_max_resolution(bpProfile)))
          /\ UNCHANGED projOthers
    \/ BpGenerate("to_dict", Returned(GPUProfileToDict(bpProfile))) /\ UNCHANGED projOthers
    \/ /\ bpOut.call = "to_dict"
       /\ BpGenerate("from_dict", Returned(GPUProfileFromDict(bpOut.value)))
       /\ UNCHANGED projOthers

SpecModes == ModesInit /\ [][ModesNext]_vars

RegSpecInit == RegInit /\ BpInit /\ CmQuiet /\ SimQuiet

RegNext ==
    \/ \E p \in {q \in Profiles : /\ q.name = "GeForce RTX 4090"
                                  /\ q.manufacturer = "NVIDIA Corporation"
                                  /\ q.vram_mb = 16384
                                  /\ q.pci_vendor_id = "10DE"
                                  /\ q.pci_device_id = "2684"} :
          \* the profiles applied again carry at most one entry
          /\ regApplies > 0 => Len(p.registry_entries) <= 1
          /\ RegApplyStart(p)
          /\ UNCHANGED <<bpVars, cmVars, simVars>>
    \/ RegBackupStep /\ UNCHANGED <<bpVars, cmVars, simVars>>
    \/ RegOpenKey /\ UNCHANGED <<bpVars, cmVars, simVars>>
    \/ RegWriteField /\ UNCHANGED <<bpVars, cmVars, simVars>>
    \/ RegReturnTrue /\ UNCHANGED <<bpVars, cmVars, simVars>>
    \/ RegCallerResumes /\ UNCHANGED <<bpVars, cmVars, simVars>>

SpecReg == RegSpecInit /\ [][RegNext]_vars

\* --- profile store ---
StoreInit ==
    /\ CmInit
    /\ files \in InitialDirs
    /\ marker \in {None, Unparsable}
    /\ BpInit
    /\ RegQuiet
    /\ SimQuiet

StoreNext ==
    \/ \E m \in Managers : CmLoadProfiles(m) /\ UNCHANGED <<bpVars, regVars, simVars>>
    \/ \E m \in Managers, o \in BOOLEAN,
             d \in {from_dict(x) : x \in Docs} \cup {BytesProfile} :
          CmSaveProfile(m, d, o) /\ UNCHANGED <<bpVars, regVars, simVars>>
    \/ \E m \in Managers, i \in (DOMAIN files \cup BaseIds) :
          CmDeleteProfile(m, i) /\ UNCHANGED <<bpVars, regVars, simVars>>
    \/ \E m \in Managers : \E i \in DOMAIN cmProfiles[m] :
          CmSetActive(m, i) /\ UNCHANGED <<bpVars, regVars, simVars>>
    \/ \E m \in Managers : CmClearActive(m) /\ UNCHANGED <<bpVars, regVars, simVars>>
    \/ \E m \in Managers : CmLoadActiveProfile(m) /\ UNCHANGED <<bpVars, regVars, simVars>>
    \/ \E m \in Managers, d \in Docs, o \in BOOLEAN, x \in {"0000000a", "0000000b"} :
          \* x: uuid.uuid4().hex[:8]
          CmImportProfile(m, d, o, x) /\ UNCHANGED <<bpVars, regVars, simVars>>

SpecStore == StoreInit /\ [][StoreNext]_vars

\* --- profile store shared by processes that obtained their manager from
\* get_config_manager(): every manager has loaded the directory ---
SharedInit ==
    /\ files \in InitialDirs
    /\ marker \in {None, Unparsable}
    /\ \E order \in GlobOrders(files) :
          cmProfiles = [m \in Managers |-> LoadLoop(files, order, <<>>)]
    /\ cmActive = [m \in Managers |-> NoDoc]
    /\ cmCall = Call("load_profiles", "gpu_sim", "None", FALSE, "None")
    /\ cmOps = 0
    /\ BpInit
    /\ RegQuiet
    /\ SimQuiet

SpecShared == SharedInit /\ [][StoreNext]_vars

\* --- telemetry simulator ---
SimInit ==
    /\ \E profile \in SimProfiles \cup {NoSimProfile} : SimInitWith(profile)
    /\ BpInit
    /\ RegQuiet
    /\ CmQuiet

simOthers == <<bpVars, regVars, cmVars>>

WorkerStep(t) ==
    \/ WLoopCheck(t)
    \/ WCalcBegin(t)
    \/ WUtilRead(t)
    \/ WUtilWrite(t)
    \/ WMemUtilRead(t)
    \/ WMemUtilWrite(t)
    \/ WMemUsedRead(t)
    \/ WMemUsedWrite(t)
    \/ WTempRead(t)
    \/ WTempWrite(t)
    \/ WClock(t)
    \/ WPowerRead(t)
    \/ WPowerWrite(t)
    \/ WFanTarget(t)
    \/ WFanRead(t)
    \/ WFanWrite(t)
    \/ WEncDec(t)
    \/ WNotify(t)
    \/ WCallbackEnds(t)
    \/ WWake(t)

SimNext ==
    \/ \E t \in Threads : WorkerStep(t) /\ UNCHANGED simOthers
    \/ SimStart /\ UNCHANGED simOthers
    \/ SimStop /\ UNCHANGED simOthers
    \/ SimJoined /\ UNCHANGED simOthers
    \/ SimJoinTimeout /\ UNCHANGED simOthers
    \/ \E profile \in SimProfiles : SimSetProfile(profile) /\ UNCHANGED simOthers
    \/ SimSetProfileNone /\ UNCHANGED simOthers
    \/ SimInitBase /\ UNCHANGED simOthers
    \/ SimInitCurrent /\ UNCHANGED simOthers
    \/ \E l \in {0, 100} : SimSetLoad(l) /\ UNCHANGED simOthers
    \/ \E c \in CallbackIds : SimAddCallback(c) /\ UNCHANGED simOthers
    \/ \E c \in CallbackIds : SimRemoveCallback(c) /\ UNCHANGED simOthers

SpecSim == SimInit /\ [][SimNext]_vars

\* --- simulator driven from one thread: set_profile, set_load and ticks one
\* after the other ---
TicksNext ==
    \/ \E variation \in {-150, 0, 150}, u1, u2 \in UniformSamples :
          SeqTick(MaxSeqTicks, variation, u1, u2) /\ UNCHANGED simOthers
    \/ \E profile \in SimProfiles : SeqSetProfile(profile) /\ UNCHANGED simOthers
    \/ \E l \in {0, 60, 100} : SeqSetLoad(l) /\ UNCHANGED simOthers

SpecTicks == SimInit /\ [][TicksNext]_vars

\* --- a load step held: set_load once on the idle baseline, then ticks with
\* the variation signal at zero ---
HeldNext ==
    \/ \E l \in {0, 50, 100} :
          ticks = 0 /\ simCalls = 0 /\ SeqSetLoad(l) /\ UNCHANGED simOthers
    \/ \E u1, u2 \in UniformSamples :
          SeqTick(MaxHeldTicks, 0, u1, u2) /\ UNCHANGED simOthers

SpecHeld == SimInit /\ [][HeldNext]_vars

\* --- notification loop: callbacks are registered, then start() is called
\* and the update thread runs with the list left alone ---
NotifyNext ==
    \/ \E t \in Threads : WorkerStep(t) /\ UNCHANGED simOthers
    \/ SimStart /\ UNCHANGED simOthers
    \/ \E c \in CallbackIds : (~running /\ SimAddCallback(c)) /\ UNCHANGED simOthers

SpecNotify == SimInit /\ [][NotifyNext]_vars

\* --- notification loop with unsubscription: as SpecNotify, and
\* remove_callback may be called at any time ---
UnsubNext ==
    \/ NotifyNext
    \/ \E c \in CallbackIds : SimRemoveCallback(c) /\ UNCHANGED simOthers

SpecUnsub == SimInit /\ [][UnsubNext]_vars

(***************************************************************************)
(* Properties                                                              *)
(***************************************************************************)

\* C4: once the adapter key has been opened, a failure on one field never
\* aborts the apply: when apply_gpu_profile returns, every field of
\* registry_entries has been attempted (written, or failed and logged).
C4_FieldFailureNeverAborts ==
    (regPc = "done" /\ regKey = "closed") =>
        regWritten \cup regFailed = DictNames(regProfile.registry_entries)

\* C5: the value returned by apply_gpu_profile tells partial application
\* from full success: a return that reports success carries no failed field.
C5_ReturnSurfacesFailures ==
    (regPc = "done" /\ regRet = TRUE) => regFailed = {}

\* C6: with backups enabled every backup export is attempted before the
\* adapter key is opened and before any value is written, and the outcome of
\* an export never keeps the apply from going on to open the key.
C6_BackupAttemptedFirst ==
    (regCreateBackups /\ (regPc \in {"open", "write", "done"} \/ regKey # None
                          \/ regWritten # {} \/ regFailed # {}))
        => regBackupIdx = Len(GPU_REGISTRY_PATHS) + 1

C6_BackupBeforeWrite ==
    /\ []C6_BackupAttemptedFirst
    /\ [][regPc = "backup" => regPc' \in {"backup", "open"}]_vars

\* C6 witness: all three exports failed and a value has still been written
C6_Witness ==
    /\ regCreateBackups
    /\ regBackupIdx = Len(GPU_REGISTRY_PATHS) + 1
    /\ regBackups = <<>>
    /\ regWritten # {}

\* C7: an apply in which no field failed has written exactly the names of
\* the Identity Projector's registry-surface map for the profile.
C7_WritesProjectorMap ==
    (regPc = "done" /\ regRet = TRUE /\ regFailed = {}) =>
        regWritten = DictNames(get_registry_entries(regProfile))

\* C8: every value written by the current apply is stored with the encoding
\* that its type selects: an int under a name containing "qwMemorySize" as
\* an 8-byte little-endian blob of that int, any other int above 0xFFFFFFFF
\* as REG_QWORD, any other int as REG_DWORD, a str as REG_SZ, bytes as
\* REG_BINARY unchanged.
C8_EncodingByType ==
    \A n \in regWritten :
        LET v  == DictGet(regProfile.registry_entries, n)
            r  == registry[n]
            qw == Contains(StrChars("qwMemorySize"), StrChars(n))
        IN  /\ (v.t = "int" /\ qw) =>
                  r.type = "REG_BINARY" /\ Len(r.b) = 8 /\ FromBytes8LE(r.b) = v.i
            /\ (v.t = "int" /\ ~qw /\ GtMaxDword(v.i)) =>
                  r.type = "REG_QWORD" /\ r.i = v.i
            /\ (v.t = "int" /\ ~qw /\ ~GtMaxDword(v.i)) =>
                  r.type = "REG_DWORD" /\ r.i = v.i
            /\ v.t = "str" => r.type = "REG_SZ" /\ r.s = v.s
            /\ v.t = "bytes" => r.type = "REG_BINARY" /\ r.b = v.b

\* C8 witness: qwMemorySize = 17179869184 has been written as its 8 bytes
C8_Witness ==
    /\ "HardwareInformation.qwMemorySize" \in regWritten
    /\ DictGet(regProfile.registry_entries, "HardwareInformation.qwMemorySize")
          = IntVal(Mem16G)
    /\ registry["HardwareInformation.qwMemorySize"].b = <<0, 0, 0, 0, 4, 0, 0, 0>>

\* C10: is_nvidia and is_amd are never both true of the profile.
C10_VendorsExclusive ==
    ~(is_nvidia(bpProfile) /\ is_amd(bpProfile))

\* C9: an import_profile(path, overwrite=False) of a document whose id is
\* in the store leaves every stored file and every entry of _profiles as it
\* was, and succeeds by storing the profile under an id that was not stored.
C9_ImportCollisionStep ==
    /\ cmOps' # cmOps
    /\ cmCall'.op = "import_profile"
    /\ ~cmCall'.overwrite
    /\ cmCall'.id \in DOMAIN files \cup DOMAIN cmProfiles[cmCall'.m]

C9_ImportCollisionLaw ==
    [][C9_ImportCollisionStep =>
        LET m == cmCall'.m
        IN  /\ \A i \in DOMAIN files : i \in DOMAIN files' /\ files'[i] = files[i]
            /\ \A i \in DOMAIN cmProfiles[m] :
                  i \in DOMAIN cmProfiles'[m] /\ cmProfiles'[m][i] = cmProfiles[m][i]
            /\ cmCall'.ret # "None"
            /\ cmCall'.ret \notin DOMAIN files \cup DOMAIN cmProfiles[m]
            /\ cmCall'.ret \in DOMAIN files' \cap DOMAIN cmProfiles'[m]]_vars

\* C1: while the simulator is stopped (stop() has returned, or start() was
\* never called) and until the next start(), no callback is invoked.
C1_NoNotifyAfterStop ==
    [][(~running /\ callerPc = "idle" /\ ~running' /\ callerPc' = "idle")
          => notified' = notified]_vars

\* C2: at most one update loop is alive at any time.
C2_SingleWorker ==
    Cardinality({t \in Threads : wpc[t] \notin {"unborn", "done", "crashed"}}) <= 1

\* C3: when set_profile(P) returns, the smoothed metrics are at the idle
\* baseline of P, and no tick stores into the snapshot a value that it
\* computed from an earlier snapshot object.
C3_AtBaseline(m, profile) ==
    /\ m.gpu_utilization = 0
    /\ m.memory_used_mb = profile.vram_mb * 100
    /\ m.temperature_core = 40000
    /\ m.power_draw_watts = profile.tdp_watts * 100
    /\ m.fan_speed_percent = 30000

C3_StoreSteps == {"util_w", "memu_w", "used_w", "temp_w", "power_w", "fan_w"}

C3_SetProfileResets ==
    [][/\ (callerPc = "init_current" /\ callerPc' = "idle")
            => C3_AtBaseline(cur', simProfile')
       /\ \A t \in Threads :
            (wpc[t] \in C3_StoreSteps /\ wpc'[t] # wpc[t])
                => wloc[t].srcId = curId]_vars

\* C11: a profile whose manufacturer is an AMD vendor string (the full
\* company name included) has is_amd true and is_nvidia false; a profile
\* with an empty or unknown manufacturer has both false.
C11_AmdVendorStrings == {"Advanced Micro Devices, Inc.", "AMD", "ATI Technologies Inc."}

C11_AmdPredicate ==
    bpProfile # NoProfile =>
        /\ bpProfile.manufacturer \in C11_AmdVendorStrings
              => (is_amd(bpProfile) /\ ~is_nvidia(bpProfile))
        /\ bpProfile.manufacturer \in {"", "Unknown"}
              => (~is_amd(bpProfile) /\ ~is_nvidia(bpProfile))

\* C12: generate_nvapi_data returns an empty map, without raising, for every
\* profile that is not an NVIDIA profile (manufacturer "Advanced Micro
\* Devices, Inc." included), and generate_adl_data does so for every profile
\* that is not an AMD profile (manufacturer "NVIDIA Corporation" included).
C12_VendorMismatchEmpty ==
    LET p == bpOut.of
        empty == bpOut.raised = "" /\ bpOut.value = <<>>
    IN  /\ (/\ bpOut.call = "generate_nvapi_data"
            /\ p # NoProfile
            /\ (~is_nvidia(p) \/ p.manufacturer = "Advanced Micro Devices, Inc."))
              => empty
        /\ (/\ bpOut.call = "generate_adl_data"
            /\ p # NoProfile
            /\ (~is_amd(p) \/ p.manufacturer = "NVIDIA Corporation"))
              => empty

\* C13: for a profile that carries no override map, the WMI, NVAPI and ADL
\* projections never raise, and the WMI projection returns the derived
\* defaults (AdapterRAM = vram_mb * 1048576).
C13_DefaultsWithoutOverrides ==
    LET p == bpOut.of
    IN  (bpOut.call \in {"generate_wmi_data", "generate_nvapi_data", "generate_adl_data"}
         /\ p # NoProfile)
            => /\ bpOut.raised = ""
               /\ bpOut.call = "generate_wmi_data"
                     => bpOut.value.AdapterRAM = vram_bytes(p)

\* C14: for every profile, the PNP device path, the Speccy/HWiNFO
\* "Device ID" string and the DXGI adapter record carry one vendor id and one
\* device id.
C14_PciIdStrings == {"10DE", "1002", "2684", "744C", "0000"}

C14_AdapterHas(v, d) ==
    /\ gzAdapter.vendor_id = HexInt(StrChars(v))
    /\ gzAdapter.device_id = HexInt(StrChars(d))

C14_PciIdsAgree ==
    (gzAdapter # NoAdapter /\ bpOut.of = bpProfile) =>
        /\ bpOut.call = "generate_wmi_data" =>
              /\ bpOut.raised = ""
              /\ \E v, d \in C14_PciIdStrings :
                    /\ bpOut.value.PNPDeviceID =
                          "PCI\\VEN_" \o v \o "&DEV_" \o d \o "&SUBSYS_00000000&REV_A1"
                    /\ C14_AdapterHas(v, d)
        /\ bpOut.call \in {"generate_speccy_data", "generate_hwinfo_data"} =>
              \E v, d \in C14_PciIdStrings :
                    /\ bpOut.value["Device ID"] = "0x" \o v \o " / 0x" \o d
                    /\ C14_AdapterHas(v, d)

\* C15: a projector call leaves the profile (its registry_entries included)
\* as it was, and a call that repeats the call before it on the unchanged
\* profile returns (or raises) what that call did.
C15_Outcome(o) == <<o.raised, o.status, o.entries, o.value>>

C16_Loadable(doc) == doc.json /\ doc.id # Absent /\ doc.name # Absent

C16_LoadExactlyParsed ==
    [][(cmOps' # cmOps /\ cmCall'.op = "load_profiles") =>
        LET loaded == cmProfiles'[cmCall'.m]
        IN  /\ \A i \in DOMAIN loaded :
                  \E f \in DOMAIN files :
                     /\ C16_Loadable(files[f])
                     /\ files[f].id = i
                     /\ loaded[i].name = files[f].name
            /\ \A f \in DOMAIN files :
                  C16_Loadable(files[f]) => files[f].id \in DOMAIN loaded]_vars

\* C17: save_profile(P, overwrite) returns False and changes neither the
\* files nor the set when <P.id>.json exists and overwrite is False; in every
\* other case it returns True, the file exists and the set maps P.id to P.
C17_SaveLaw ==
    [][(cmOps' # cmOps /\ cmCall'.op = "save_profile") =>
        LET P == cmCall'.arg
            m == cmCall'.m
        IN  IF P.id \in DOMAIN files /\ ~cmCall'.overwrite
            THEN /\ cmCall'.ret = "False"
                 /\ files' = files
                 /\ cmProfiles' = cmProfiles
            ELSE /\ cmCall'.ret = "True"
                 /\ P.id \in DOMAIN files'
                 /\ P.id \in DOMAIN cmProfiles'[m]
                 /\ cmProfiles'[m][P.id] = P]_vars

\* C18: delete_profile(id) removes <id>.json and the entry of the deleting
\* manager, clears that manager's active profile when it was the deleted
\* one, and leaves the files and entries of every other id as they were.
C18_DeleteLaw ==
    [][(cmOps' # cmOps /\ cmCall'.op = "delete_profile") =>
        LET id == cmCall'.id
            m  == cmCall'.m
        IN  /\ id \notin DOMAIN files'
            /\ id \notin DOMAIN cmProfiles'[m]
            /\ (cmActive[m] # NoDoc /\ cmActive[m].id = id) => cmActive'[m] = NoDoc
            /\ (cmActive[m] = NoDoc \/ cmActive[m].id # id) => cmActive'[m] = cmActive[m]
            /\ DOMAIN files' = DOMAIN files \ {id}
            /\ \A i \in DOMAIN files' : files'[i] = files[i]
            /\ DOMAIN cmProfiles'[m] = DOMAIN cmProfiles[m] \ {id}
            /\ \A i \in DOMAIN cmProfiles'[m] : cmProfiles'[m][i] = cmProfiles[m][i]]_vars

\* a delete_profile call has just removed the file, the entry and the active
\* profile of the deleting manager
C18_Witness ==
    /\ cmCall.op = "delete_profile"
    /\ marker = cmCall.id
    /\ cmActive[cmCall.m] = NoDoc
    /\ cmProfiles[cmCall.m] # <<>>
    /\ files # <<>>

\* C19: setting active_profile to a profile with id X makes it the active
\* profile of that manager and records X; load_active_profile() on a manager
\* whose loaded set contains the recorded id returns that profile, and
\* returns None when the marker is missing, unparsable or names an id that
\* is not loaded.
C19_ActiveLaw ==
    [][/\ (cmOps' # cmOps /\ cmCall'.op = "active_profile" /\ cmCall'.id # "None") =>
            /\ cmActive'[cmCall'.m] = cmProfiles[cmCall'.m][cmCall'.id]
            /\ marker' = cmCall'.id
       /\ (cmOps' # cmOps /\ cmCall'.op = "load_active_profile") =>
            LET m == cmCall'.m
            IN  IF /\ marker # None
                   /\ marker # Unparsable
                   /\ marker \in DOMAIN cmProfiles[m]
                THEN /\ cmCall'.ret = marker
                     /\ cmActive'[m] = cmProfiles[m][marker]
                ELSE cmCall'.ret = "None"]_vars

C28_DeletedNotActive ==
    [][(/\ cmCall.op = "delete_profile"
        /\ cmCall.arg # NoDoc
        /\ cmOps' # cmOps
        /\ cmCall'.op = "load_active_profile")
          => cmCall'.ret # cmCall.id]_vars

\* C29: at the end of a tick every callback that was registered before the
\* tick began and is still registered has been invoked in that tick, also
\* when remove_callback ran while the update thread was going through the
\* list.  (Under SpecUnsub callbacks are only added before start().)
C29_Count(list, x) == Cardinality({i \in 1..Len(list) : list[i] = x})

C29_NoCallbackSkipped ==
    \A t \in Threads :
        wpc[t] = "sleep" =>
            \A x \in CallbackIds :
                C29_Count(wloc[t].called, x) >= C29_Count(callbacks, x)

\* C30: apply_gpu_profile changes the adapter subkey only by storing, under
\* the name of an entry of the profile, the data encoded from that entry:
\* every other value stays as it was; and when a profile that was applied in
\* full is applied again, the subkey already holds what the second apply
\* stores, so that applying twice leaves the state of applying once.
C30_Stored(p, reg) ==
    \A i \in 1..Len(p.registry_entries) :
        LET e == p.registry_entries[i]
        IN  EncodeEntry(e.name, e.value).type = "skip"
               \/ reg[e.name] = EncodeEntry(e.name, e.value)

C30_OnlyNamedValues ==
    [][/\ registry' # registry =>
            \E i \in 1..Len(regProfile.registry_entries) :
               LET e == regProfile.registry_entries[i]
               IN  registry' = [registry EXCEPT ![e.name] = EncodeEntry(e.name, e.value)]
       /\ (/\ regApplies' = regApplies + 1
           /\ regApplies >= 1
           /\ regProfile' = regProfile
           /\ regRet = TRUE
           /\ regFailed = {})
             => C30_Stored(regProfile, registry)]_vars

\* a second apply has returned True after writing, and a value that its
\* profile does not name is still in the subkey
C30_Witness ==
    /\ regApplies = 2
    /\ regPc = "done"
    /\ regRet = TRUE
    /\ regWritten # {}
    /\ "DriverDesc" \notin DictNames(regProfile.registry_entries)
    /\ registry["DriverDesc"] # NoValue

\* C21: whenever no call is in progress and the simulator has no profile,
\* it is in the consistent no-profile state: the current snapshot is the
\* default all-zero snapshot, not the snapshot of a previous profile.
C21_NoProfileConsistent ==
    (callerPc = "idle" /\ simProfile = NoSimProfile) => cur = DefaultMetrics

C24_ClockIsFloor ==
    [][(ticks' = ticks + 1 /\ simProfile # NoSimProfile)
          => cur'.gpu_clock_mhz =
                (simProfile.base_clock_mhz * (4000 + targetLoad)) \div 4000]_vars

\* within 5% of the full-load targets 100 and 85 (thousandths)
C23_UtilNear == 95000 <= cur.gpu_utilization /\ cur.gpu_utilization <= 105000
C23_TempNear == 80750 <= cur.temperature_core /\ cur.temperature_core <= 89250

C25_Settled ==
    LET mu == Max(10000, 80 * targetLoad + 10000)
        pw == (simProfile.tdp_watts * (1000 + 9 * targetLoad)) \div 10
    IN  /\ mu - 10 <= cur.memory_utilization /\ cur.memory_utilization <= mu + 10
        /\ simProfile.vram_mb * (mu \div 100) - 1000 <= cur.memory_used_mb
        /\ cur.memory_used_mb <= simProfile.vram_mb * (mu \div 100) + 1000
        /\ pw - 10 <= cur.power_draw_watts /\ cur.power_draw_watts <= pw + 10

\* C25: with the load held and the variation at zero, the ticks from the idle
\* baseline bring memory_utilization to max(10, 80*L + 10), memory_used_mb
\* to vram_mb * memory_utilization / 100 and power_draw_watts to
\* tdp_watts * (0.1 + 0.9*L), and they stay there; with vram_mb = 8192,
\* tdp_watts = 250 and load 0 that is about 819 MB and about 25 W.
C25_Converges ==
    /\ [](simProfile # NoSimProfile /\ ticks + 2 >= MaxHeldTicks => C25_Settled)
    /\ [][(simProfile # NoSimProfile /\ ticks' = ticks + 1 /\ C25_Settled)
             => C25_Settled']_vars
    /\ []((/\ simProfile # NoSimProfile
           /\ simProfile.vram_mb = 8192 /\ simProfile.tdp_watts = 250
           /\ targetLoad = 0 /\ ticks + 2 >= MaxHeldTicks)
            => /\ 818000 <= cur.memory_used_mb /\ cur.memory_used_mb <= 820000
               /\ 24900 <= cur.power_draw_watts /\ cur.power_draw_watts <= 25100)

\* the run at full load has settled at 90 percent memory utilization
C25_Witness ==
    /\ simProfile # NoSimProfile
    /\ targetLoad = 1000
    /\ ticks = MaxHeldTicks
    /\ cur.memory_utilization > 89000
    /\ C25_Settled

\* C26: for every profile P, GPUProfile.from_dict(P.to_dict()) equals P in
\* every field, the display modes included, in their order.
C26_RoundTrip ==
    bpOut.call = "from_dict" =>
        /\ bpOut.value = bpProfile
        /\ \A i \in 1..Len(bpProfile.display_modes) :
              bpOut.value.display_modes[i] = bpProfile.display_modes[i]

\* a profile with differing display modes has been round-tripped
C26_Witness ==
    /\ bpOut.call = "from_dict"
    /\ Len(bpProfile.display_modes) >= 2
    /\ bpProfile.display_modes[1] # bpProfile.display_modes[2]
    /\ bpProfile.device_description # ""

\* C27: get_max_resolution() returns a display mode of the profile whose
\* width*height is at least that of every display mode of the profile, and
\* returns None exactly when display_modes is empty.
C27_MaxResolution ==
    bpOut.call = "get_max_resolution" =>
        LET ms == bpProfile.display_modes
        IN  /\ (bpOut.value = NoMode) <=> (ms = <<>>)
            /\ ms # <<>> =>
                  /\ \E i \in 1..Len(ms) : bpOut.value = ms[i]
                  /\ \A j \in 1..Len(ms) :
                        bpOut.value.width * bpOut.value.height
                           >= ms[j].width * ms[j].height

\* the largest mode is not the first and not the widest of the list
C27_Witness ==
    /\ bpOut.call = "get_max_resolution"
    /\ Len(bpProfile.display_modes) >= 2
    /\ bpOut.value # bpProfile.display_modes[1]
    /\ \E j \in 1..Len(bpProfile.display_modes) :
          bpProfile.display_modes[j].width > bpOut.value.width
====
